---- MODULE Spec2Model ----
(***************************************************************************)
(* A state-machine model of torch/_custom_op/impl.py: the CustomOp         *)
(* extension points, their kind maps (_impls), the process-wide            *)
(* global_registry, and the part of the host dispatcher (torch.library,    *)
(* the torch._C dispatch queries) that the module calls.  Strings are       *)
(* sequences of one-character strings: parse_qualname really splits them.  *)
(***************************************************************************)
EXTENDS Integers, Sequences, FiniteSets, TLC

(* ------------------------------ bounds -------------------------------- *)

\* CustomOp objects ever constructed in one run.
MaxOps == 2
\* Entries recorded in the kind maps (_impls) of all CustomOp objects together.
MaxImpls == 3
\* Operators another registration surface defines in the host dispatcher.
MaxExtDefs == 1
\* Kernels another registration surface installs in the host dispatcher.
MaxExtKernels == 1
\* CustomOp objects constructed in a run that exercises registration.
MaxRegOps == 1

\* Threads that declare at the same time.
MaxThreads == 3

\* Parameters of a prototype function, and arguments in each group of a manual schema.
MaxParams == 2

\* Streams and events created, and the times one event is recorded.
MaxStreams == 2
MaxEvents == 3
MaxRecords == 2
MaxMetaExtKernels == 3

(* ------------------------------ strings ------------------------------- *)

SEP == <<":", ":">>

\* Index of the first "::" in s, 0 when there is none.
FirstSep(s) ==
    LET I == {i \in 1..(Len(s) - 1) : s[i] = ":" /\ s[i + 1] = ":"}
    IN  IF I = {} THEN 0 ELSE CHOOSE i \in I : \A j \in I : i <= j

\* str.split("::", 1)
SplitOnce(s) ==
    LET i == FirstSep(s)
    IN  IF i = 0 THEN <<s>>
        ELSE <<SubSeq(s, 1, i - 1), SubSeq(s, i + 2, Len(s))>>

RECURSIVE SplitAll(_)
\* str.split("::")
SplitAll(s) ==
    LET i == FirstSep(s)
    IN  IF i = 0 THEN <<s>>
        ELSE <<SubSeq(s, 1, i - 1)>> \o SplitAll(SubSeq(s, i + 2, Len(s)))

\* "." in s
HasDot(s) == \E i \in 1..Len(s) : s[i] = "."

\* f"{cpp_ns}::{operator_name}"
Qual(ns, name) == ns \o SEP \o name

RESERVED_NS ==
    { <<"p", "r", "i", "m">>, <<"p", "r", "i", "m", "s">>, <<"a", "t", "e", "n">>,
      <<"a", "t">>, <<"t", "o", "r", "c", "h">>, <<"p", "y", "t", "o", "r", "c", "h">> }

\* The qualified names handed to the entry points.
Q_mf == <<"m", ":", ":", "f">>
Q_nosep == <<"m", "f">>
Q_nsdot == <<"m", ".", ":", ":", "f">>
Q_reserved == <<"a", "t", ":", ":", "f">>
Q_symdot == <<"m", ":", ":", "f", ".", "o">>
Q_emptysym == <<"m", ":", ":">>

QualNames == {Q_mf, Q_nosep, Q_nsdot, Q_reserved, Q_symdot, Q_emptysym}

\* The prototype functions handed to custom_op: whether inspect.isfunction holds,
\* func.__name__, and whether the signature matches a manual schema.
P_f == [isfunc |-> TRUE, name |-> <<"f">>, matches |-> TRUE]
P_g == [isfunc |-> TRUE, name |-> <<"g">>, matches |-> TRUE]
P_int == [isfunc |-> FALSE, name |-> <<"f">>, matches |-> TRUE]
P_sig == [isfunc |-> TRUE, name |-> <<"f">>, matches |-> FALSE]
P_noname == [isfunc |-> TRUE, name |-> <<>>, matches |-> TRUE]

(* --------------------------- kinds and keys --------------------------- *)

\* The table with the two dispatch keys exchanged.
SUPPORTED_DEVICE_TYPE_TO_KEY_swapped == [cpu |-> "CUDA", cuda |-> "CPU"]

SUPPORTED_DEVICE_TYPE_TO_KEY == [cpu |-> "CPU", cuda |-> "CUDA"]

DeviceTypes == {"cpu", "cuda", "xpu"}

Kinds == {"cpu", "cuda", "factory", "abstract", "backward", "save_for_backward", "autograd"}

\* The implementations (callables) and call sites (file:line) used in register calls.
RegInputs == {<<"f", "L1">>, <<"f", "L2">>, <<"g", "L2">>}

\* FuncAndLocation; NoImpl stands for "kind not in self._impls".
NoImpl == [func |-> "none", location |-> "none"]
FuncAndLocation(f, loc) == [func |-> f, location |-> loc]

EmptyImpls == [k \in Kinds |-> NoImpl]

(* ------------------------------ schemas ------------------------------- *)

\* What the code reads of a FunctionSchema.
S_ok == [parses |-> TRUE, mutable |-> FALSE, views |-> FALSE, nrets |-> 1, self_arg |-> FALSE]
S_noret == [S_ok EXCEPT !.nrets = 0]
S_mut == [S_ok EXCEPT !.mutable = TRUE]
S_self == [S_ok EXCEPT !.self_arg = TRUE]
S_bad == [S_ok EXCEPT !.parses = FALSE]

DeclSchemas == {S_ok, S_noret, S_mut, S_self, S_bad}

VARIABLES ops, global_registry, hostDefs, hostKernels, last, threads, sig, out,
          streams, events

vars == <<ops, global_registry, hostDefs, hostKernels, last, threads, sig, out,
          streams, events>>

(***************************************************************************)
(* ops: the CustomOp objects ever constructed, by handle 1..Len(ops).      *)
(* global_registry: qualname -> handle.                                    *)
(* hostDefs: the operators defined in the host dispatcher, each with its   *)
(*   schema and the Library that defined it (a handle, or 0 for another    *)
(*   registration surface).                                                *)
(* hostKernels: <<operator name, dispatch key, owning Library>>.           *)
(* last: the last call made and what it returned or raised.                *)
(* threads: where each thread that runs a declaration step by step stands. *)
(* sig: inspect.signature of the prototype function handed to infer_schema *)
(*   and validate_function_matches_schema.                                 *)
(* out: what the last of these schema functions was given and produced.    *)
(* streams: the torch.Stream objects created, each with its stream_id.     *)
(* events: the torch.Event objects created, each with its event_id, the    *)
(*   stream it was last recorded on and how often it was recorded.         *)
(***************************************************************************)

Handles == 1..Len(ops)

NoCall == [op |-> "none", h |-> 0, q |-> <<>>, kinds |-> {}, err |-> "ok", ret |-> "none"]

Result(op, h, q, kinds, err, ret) ==
    [op |-> op, h |-> h, q |-> q, kinds |-> kinds, err |-> err, ret |-> ret]

InRegistry(q) == q \in DOMAIN global_registry

(* -------------------------- host dispatcher --------------------------- *)

HostDefined(q) == \E d \in hostDefs : d.name = q

HostKernelsOf(K, q, key) == {k \in K : k[1] = q /\ k[2] = key}

\* c10::Dispatcher::findOp: the operator is known when it is defined or has a kernel.
HostFindOp(K, q) == HostDefined(q) \/ \E k \in K : k[1] = q

\* _C._dispatch_has_kernel_for_dispatch_key
HostHasKernel(K, q, key) == HostKernelsOf(K, q, key) # {}

\* _C._dispatch_has_computed_kernel_for_dispatch_key: the dispatch table entry of a
\* backend key is filled from its own kernel or from a composite alias key.
HostHasComputedKernel(K, q, key) ==
    \/ HostHasKernel(K, q, key)
    \/ HostHasKernel(K, q, "CompositeExplicitAutograd")
    \/ HostHasKernel(K, q, "CompositeImplicitAutograd")

\* library.Library.define: an operator name is defined once.
LibDefineFails(q) == HostDefined(q)

\* library.Library.impl: one kernel per operator and dispatch key.
LibImplFails(K, q, key) == HostHasKernel(K, q, key)

\* Everything Library `owner` registered goes when the Library is released.
ReleaseDefs(owner) == {d \in hostDefs : d.owner # owner}
ReleaseKernels(owner) == {k \in hostKernels : k[3] # owner}

(* ------------------------------ validation ---------------------------- *)

\* parse_qualname: "ok" or the error it raises.
parse_qualname_err(qualname) ==
    LET names == SplitOnce(qualname)
    IN  IF Len(names) # 2 THEN "InvalidName"
        ELSE IF HasDot(names[2]) THEN "InvalidName"
        ELSE "ok"

parse_qualname(qualname) == SplitOnce(qualname)

\* validate_namespace without its RESERVED_NAMESPACES check.
validate_namespace_err_unreserved(ns) ==
    IF HasDot(ns) THEN "InvalidName" ELSE "ok"

validate_namespace_err(ns) ==
    IF HasDot(ns) THEN "InvalidName"
    ELSE IF ns \in RESERVED_NS THEN "ReservedNamespace"
    ELSE "ok"

\* torch._library.utils.is_functional_schema
is_functional_schema(schema) ==
    /\ ~schema.mutable
    /\ ~schema.views
    /\ schema.nrets > 0

\* validate_schema without the check for an argument named self.
validate_schema_err_noself(schema) ==
    IF ~is_functional_schema(schema) THEN "NonFunctionalSchema" ELSE "ok"

validate_schema_err(schema) ==
    IF ~is_functional_schema(schema) THEN "NonFunctionalSchema"
    ELSE IF schema.self_arg THEN "NonFunctionalSchema"
    ELSE "ok"

\* FunctionSchema.parse(f"{name}{schema}"): needs an operator name and a parsable schema.
schema_parse_err(name, schema) ==
    IF name = <<>> \/ ~schema.parses THEN "MalformedSchema" ELSE "ok"

\* get_op: "ok" when torch.ops.<ns>.<name>.default exists.
get_op_err(defs, qualname) ==
    IF parse_qualname_err(qualname) # "ok" THEN parse_qualname_err(qualname)
    ELSE IF \E d \in defs : d.name = qualname THEN "ok"
    ELSE "NotFound"

(* --------------------------- CustomOp object -------------------------- *)

\* A CustomOp that starts from the kind map of an earlier object of the same name
\* instead of `self._impls = {}`.
NewCustomOp_stale(cpp_ns, schema, operator_name, origin) ==
    LET q == Qual(cpp_ns, operator_name)
        earlier == {h \in 1..Len(ops) : ops[h].qualname = q}
    IN  [ qualname |-> q,
          cpp_ns |-> cpp_ns,
          opname |-> operator_name,
          schema |-> schema,
          impls |-> IF earlier = {} THEN EmptyImpls
                    ELSE ops[CHOOSE h \in earlier : \A g \in earlier : g <= h].impls,
          indirection |-> FALSE,
          lib |-> TRUE,
          origin |-> origin ]

\* CustomOp.__init__: the fields of a new object.
NewCustomOp(cpp_ns, schema, operator_name, origin) ==
    [ qualname |-> Qual(cpp_ns, operator_name),
      cpp_ns |-> cpp_ns,
      opname |-> operator_name,
      schema |-> schema,
      impls |-> EmptyImpls,
      indirection |-> FALSE,
      lib |-> TRUE,
      origin |-> origin ]

\* global_registry[self._qualname] = self
RegistryPut(reg, q, h) == [n \in (DOMAIN reg) \cup {q} |-> IF n = q THEN h ELSE reg[n]]

\* A _destroy that leaves the entry of q in place.
RegistryDel_keep(reg, q) == reg

\* del global_registry[q]
RegistryDel(reg, q) == [n \in (DOMAIN reg) \ {q} |-> reg[n]]

_has_impl(impls, kind) == impls[kind] # NoImpl

TotalImpls == Cardinality({<<h, k>> \in Handles \X Kinds : _has_impl(ops[h].impls, k)})

Init ==
    /\ ops = <<>>
    /\ global_registry = <<>>
    /\ hostDefs = {}
    /\ hostKernels = {}
    /\ last = NoCall

(* ------------------------------- declare ------------------------------ *)

\* The checks of custom_op.inner with lib.define accepting a name that is already defined.
custom_op_precheck_redefine(qualname, func, manual, schema) ==
    IF ~func.isfunc THEN "NotAFunction"
    ELSE IF parse_qualname_err(qualname) # "ok" THEN parse_qualname_err(qualname)
    ELSE LET ns == parse_qualname(qualname)[1]
             name == parse_qualname(qualname)[2]
         IN  IF validate_namespace_err(ns) # "ok" THEN validate_namespace_err(ns)
             ELSE IF func.name # name THEN "NameMismatch"
             ELSE IF schema_parse_err(name, schema) # "ok" THEN schema_parse_err(name, schema)
             ELSE IF validate_schema_err(schema) # "ok" THEN validate_schema_err(schema)
             ELSE IF manual /\ ~func.matches THEN "SignatureMismatch"
             ELSE "ok"

\* The checks of custom_op.inner that come before anything is created.
custom_op_precheck(qualname, func, manual, schema) ==
    IF ~func.isfunc THEN "NotAFunction"
    ELSE IF parse_qualname_err(qualname) # "ok" THEN parse_qualname_err(qualname)
    ELSE LET ns == parse_qualname(qualname)[1]
             name == parse_qualname(qualname)[2]
         IN  IF validate_namespace_err(ns) # "ok" THEN validate_namespace_err(ns)
             ELSE IF func.name # name THEN "NameMismatch"
             ELSE IF schema_parse_err(name, schema) # "ok" THEN schema_parse_err(name, schema)
             ELSE IF validate_schema_err(schema) # "ok" THEN validate_schema_err(schema)
             ELSE IF manual /\ ~func.matches THEN "SignatureMismatch"
             ELSE IF LibDefineFails(Qual(ns, name)) THEN "DuplicateDeclaration"
             ELSE "ok"

\* custom_op(qualname, manual_schema)(func)
custom_op(qualname, func, manual, schema) ==
    LET pre == custom_op_precheck(qualname, func, manual, schema)
        ns == parse_qualname(qualname)[1]
        name == parse_qualname(qualname)[2]
        h == Len(ops) + 1
        q == Qual(ns, name)
    IN  IF pre # "ok"
        THEN /\ last' = Result("custom_op", 0, qualname, {}, pre, "none")
             /\ UNCHANGED <<ops, global_registry, hostDefs, hostKernels>>
        ELSE /\ Len(ops) < MaxOps
             /\ ops' = Append(ops, NewCustomOp(ns, schema, name, "custom_op"))
             /\ global_registry' = RegistryPut(global_registry, q, h)
             /\ hostDefs' = hostDefs \cup {[name |-> q, schema |-> schema, owner |-> h]}
             /\ IF LibImplFails(hostKernels, q, "Autograd")
                THEN /\ hostKernels' = hostKernels
                     /\ last' = Result("custom_op", h, qualname, {}, "HostDuplicateKernel", "none")
                ELSE /\ hostKernels' = hostKernels \cup {<<q, "Autograd", h>>}
                     /\ last' = Result("custom_op", h, qualname, {}, "ok", "CustomOp")

\* The checks of _custom_op_with_schema that come before anything is created.
custom_op_with_schema_precheck(qualname, schema) ==
    LET parts == SplitAll(qualname)
        ns == parts[1]
        name == parts[2]
    IN  IF Len(parts) # 2 THEN "InvalidName"
        ELSE IF schema_parse_err(name, schema) # "ok" THEN schema_parse_err(name, schema)
        ELSE IF validate_schema_err(schema) # "ok" THEN validate_schema_err(schema)
        ELSE IF LibDefineFails(Qual(ns, name)) THEN "DuplicateDeclaration"
        ELSE "ok"

\* _custom_op_with_schema(qualname, schema)
custom_op_with_schema(qualname, schema) ==
    LET parts == SplitAll(qualname)
        ns == parts[1]
        name == parts[2]
        q == Qual(ns, name)
        h == Len(ops) + 1
        pre == custom_op_with_schema_precheck(qualname, schema)
        defs == hostDefs \cup {[name |-> q, schema |-> schema, owner |-> h]}
        obj == NewCustomOp(ns, schema, name, "with_schema")
    IN  IF pre # "ok"
        THEN /\ last' = Result("custom_op_with_schema", 0, qualname, {}, pre, "none")
             /\ UNCHANGED <<ops, global_registry, hostDefs, hostKernels>>
        ELSE /\ Len(ops) < MaxOps
             /\ global_registry' = RegistryPut(global_registry, q, h)
             /\ hostDefs' = defs
             /\ IF LibImplFails(hostKernels, q, "Autograd")
                THEN \* result._register_autograd_kernel_indirection() raises in self._lib.impl
                     /\ ops' = Append(ops, obj)
                     /\ hostKernels' = hostKernels
                     /\ last' = Result("custom_op_with_schema", h, qualname, {},
                                       "HostDuplicateKernel", "none")
                ELSE /\ ops' = Append(ops, [obj EXCEPT !.indirection = TRUE])
                     /\ hostKernels' = hostKernels \cup {<<q, "Autograd", h>>}
                     /\ last' = Result("custom_op_with_schema", h, qualname, {},
                                       get_op_err(defs, qualname),
                                       IF get_op_err(defs, qualname) = "ok" THEN "OpOverload" ELSE "none")

\* custom_op_from_existing(op), op the OpOverload of the host definition d
custom_op_from_existing(d) ==
    LET parts == SplitAll(d.name)
        ns == parts[1]
        name == parts[Len(parts)]
        h == Len(ops) + 1
    IN  /\ Len(ops) < MaxOps
        /\ ops' = Append(ops, NewCustomOp(ns, d.schema, name, "existing"))
        /\ global_registry' = RegistryPut(global_registry, Qual(ns, name), h)
        /\ last' = Result("custom_op_from_existing", h, d.name, {}, "ok", "CustomOp")
        /\ UNCHANGED <<hostDefs, hostKernels>>

\* _find_custom_op: "ok" when it returns a CustomOp, else the error it raises.
find_custom_op_err(qualname, also_check_torch_library) ==
    IF InRegistry(qualname) THEN "ok"
    ELSE IF ~also_check_torch_library THEN "NotFound"
    ELSE get_op_err(hostDefs, qualname)

\* What _find_custom_op returns when it does not raise.
find_custom_op_ret(qualname, also_check_torch_library) ==
    IF find_custom_op_err(qualname, also_check_torch_library) = "ok" THEN "CustomOp" ELSE "none"

\* _find_custom_op(qualname, also_check_torch_library)
find_custom_op(qualname, also_check_torch_library) ==
    LET err == find_custom_op_err(qualname, also_check_torch_library)
        ret == find_custom_op_ret(qualname, also_check_torch_library)
    IN  IF InRegistry(qualname)
        THEN /\ last' = Result("find_custom_op", global_registry[qualname], qualname, {}, err, ret)
             /\ UNCHANGED <<ops, global_registry, hostDefs, hostKernels>>
        ELSE IF err # "ok"
        THEN /\ last' = Result("find_custom_op", 0, qualname, {}, err, ret)
             /\ UNCHANGED <<ops, global_registry, hostDefs, hostKernels>>
        ELSE \* result = custom_op_from_existing(get_op(qualname))
             LET d == CHOOSE e \in hostDefs : e.name = qualname
                 parts == SplitAll(d.name)
                 ns == parts[1]
                 name == parts[Len(parts)]
                 h == Len(ops) + 1
             IN  /\ Len(ops) < MaxOps
                 /\ ops' = Append(ops, NewCustomOp(ns, d.schema, name, "existing"))
                 /\ global_registry' = RegistryPut(global_registry, Qual(ns, name), h)
                 /\ last' = Result("find_custom_op", h, qualname, {}, err, ret)
                 /\ UNCHANGED <<hostDefs, hostKernels>>

\* What get_abstract_impl(qualname) returns.
get_abstract_impl_ret(qualname) ==
    IF ~InRegistry(qualname) THEN "None"
    ELSE IF ~_has_impl(ops[global_registry[qualname]].impls, "abstract") THEN "None"
    ELSE ops[global_registry[qualname]].impls["abstract"].func

\* get_abstract_impl(qualname)
get_abstract_impl(qualname) ==
    /\ last' = Result("get_abstract_impl", 0, qualname, {}, "ok",
                      get_abstract_impl_ret(qualname))
    /\ UNCHANGED <<ops, global_registry, hostDefs, hostKernels>>

(* ------------------ declare, one step of a thread at a time ----------- *)

Threads == 1..MaxThreads

\* A thread that has not called yet.
IdleThread ==
    [at |-> "idle", entry |-> "none", q |-> <<>>, func |-> P_f, manual |-> FALSE,
     schema |-> S_ok, h |-> 0, err |-> "ok"]

\* The checks of the entry point the thread called, lib.define's among them.
declare_precheck(entry, qualname, func, manual, schema) ==
    IF entry = "custom_op" THEN custom_op_precheck(qualname, func, manual, schema)
    ELSE custom_op_with_schema_precheck(qualname, schema)

\* Thread t runs its entry point up to and including lib.define(schema_str); the
\* host dispatcher checks the name and records the definition under its own lock.
declare_define(t, entry, qualname, func, manual, schema) ==
    LET pre == declare_precheck(entry, qualname, func, manual, schema)
        h == Len(ops) + 1
    IN  /\ threads[t].at = "idle"
        /\ IF pre # "ok"
           THEN /\ threads' = [threads EXCEPT ![t] = [at |-> "raised", entry |-> entry,
                                   q |-> qualname, func |-> func, manual |-> manual,
                                   schema |-> schema, h |-> 0, err |-> pre]]
                /\ last' = Result(entry, 0, qualname, {}, pre, "none")
                /\ UNCHANGED hostDefs
           ELSE /\ Len(ops) < MaxOps
                /\ hostDefs' = hostDefs \cup {[name |-> qualname, schema |-> schema, owner |-> h]}
                /\ threads' = [threads EXCEPT ![t] = [at |-> "defined", entry |-> entry,
                                   q |-> qualname, func |-> func, manual |-> manual,
                                   schema |-> schema, h |-> h, err |-> "ok"]]
                /\ UNCHANGED last
        /\ UNCHANGED <<ops, global_registry, hostKernels>>

\* Thread t runs CustomOp(lib, ns, function_schema, name, ophandle): the object is
\* built and global_registry[self._qualname] = self is its last statement.
declare_construct(t) ==
    LET th == threads[t]
        parts == SplitAll(th.q)
        origin == IF th.entry = "custom_op" THEN "custom_op" ELSE "with_schema"
    IN  /\ th.at = "defined"
        /\ th.h = Len(ops) + 1
        /\ ops' = Append(ops, NewCustomOp(parts[1], th.schema, parts[2], origin))
        /\ global_registry' = RegistryPut(global_registry, th.q, th.h)
        /\ threads' = [threads EXCEPT ![t].at = "constructed"]
        /\ UNCHANGED <<hostDefs, hostKernels, last>>

\* Thread t installs the Autograd kernel and returns: library.impl(lib, ...) in
\* custom_op, result._register_autograd_kernel_indirection() and get_op(qualname)
\* in _custom_op_with_schema.
declare_return(t) ==
    LET th == threads[t]
        err == IF LibImplFails(hostKernels, th.q, "Autograd") THEN "HostDuplicateKernel"
               ELSE IF th.entry = "custom_op" THEN "ok"
               ELSE get_op_err(hostDefs, th.q)
        ret == IF err # "ok" THEN "none"
               ELSE IF th.entry = "custom_op" THEN "CustomOp" ELSE "OpOverload"
    IN  /\ th.at = "constructed"
        /\ hostKernels' = IF LibImplFails(hostKernels, th.q, "Autograd") THEN hostKernels
                          ELSE hostKernels \cup {<<th.q, "Autograd", th.h>>}
        /\ ops' = IF th.entry = "custom_op" \/ LibImplFails(hostKernels, th.q, "Autograd")
                  THEN ops
                  ELSE [ops EXCEPT ![th.h].indirection = TRUE]
        /\ threads' = [threads EXCEPT ![t].at = IF err = "ok" THEN "returned" ELSE "raised",
                                      ![t].err = err]
        /\ last' = Result(th.entry, th.h, th.q, {}, err, ret)
        /\ UNCHANGED <<global_registry, hostDefs>>

(* ------------------------------- destroy ------------------------------ *)

\* CustomOp._destroy
destroy(h) ==
    IF ~ops[h].lib
    THEN \* del self._lib raises: the attribute is gone
         /\ last' = Result("destroy", h, ops[h].qualname, {}, "AttributeError", "none")
         /\ UNCHANGED <<ops, global_registry, hostDefs, hostKernels>>
    ELSE /\ ops' = [ops EXCEPT ![h].lib = FALSE]
         /\ hostDefs' = ReleaseDefs(h)
         /\ hostKernels' = ReleaseKernels(h)
         /\ IF InRegistry(ops[h].qualname)
            THEN /\ global_registry' = RegistryDel(global_registry, ops[h].qualname)
                 /\ last' = Result("destroy", h, ops[h].qualname, {}, "ok", "none")
            ELSE /\ global_registry' = global_registry
                 /\ last' = Result("destroy", h, ops[h].qualname, {}, "KeyError", "none")

(* ------------------- the other registration surface ------------------- *)

ExtNames == {Q_mf, Q_reserved}

\* torch.library / TORCH_LIBRARY defines an operator outside this module.
ExternalDefine(q, schema) ==
    /\ ~HostDefined(q)
    /\ Cardinality({d \in hostDefs : d.owner = 0}) < MaxExtDefs
    /\ hostDefs' = hostDefs \cup {[name |-> q, schema |-> schema, owner |-> 0]}
    /\ last' = Result("external_define", 0, q, {}, "ok", "none")
    /\ UNCHANGED <<ops, global_registry, hostKernels>>

\* torch.library / TORCH_LIBRARY_IMPL installs a kernel outside this module.
ExternalImplUpTo(q, key, max) ==
    /\ ~HostHasKernel(hostKernels, q, key)
    /\ Cardinality({k \in hostKernels : k[3] = 0}) < max
    /\ hostKernels' = hostKernels \cup {<<q, key, 0>>}
    /\ last' = Result("external_impl", 0, q, {}, "ok", "none")
    /\ UNCHANGED <<ops, global_registry, hostDefs>>

ExternalImpl(q, key) == ExternalImplUpTo(q, key, MaxExtKernels)

(* ------------------------------ register ----------------------------- *)

\* The state a register call works on: the object's kind map and indirection flag,
\* the host's kernels, and the error raised so far ("ok": none).
RegState(h) ==
    [impls |-> ops[h].impls, ind |-> ops[h].indirection, kernels |-> hostKernels, err |-> "ok"]

Raise(st, err) == [st EXCEPT !.err = err]

\* _register_impl without its `if self._has_impl(kind)` check: a later call overwrites.
register_impl_overwrite(st, kind, f, loc) ==
    IF st.err # "ok" THEN st
    ELSE [st EXCEPT !.impls[kind] = FuncAndLocation(f, loc)]

\* CustomOp._register_impl
register_impl(st, kind, f, loc) ==
    IF st.err # "ok" THEN st
    ELSE IF _has_impl(st.impls, kind) THEN Raise(st, "DuplicateKindRegistration")
    ELSE [st EXCEPT !.impls[kind] = FuncAndLocation(f, loc)]

\* A library.impl that installs nothing.
lib_impl_skip(st, h, key) == st

\* library.impl(self._lib, self._opname, key)(f) and self._lib.impl(...)
lib_impl(st, h, key) ==
    IF st.err # "ok" THEN st
    ELSE IF ~ops[h].lib THEN Raise(st, "AttributeError")
    ELSE IF LibImplFails(st.kernels, ops[h].qualname, key) THEN Raise(st, "HostDuplicateKernel")
    ELSE [st EXCEPT !.kernels = @ \cup {<<ops[h].qualname, key, h>>}]

\* _check_doesnt_have_library_impl without its `if self._has_impl(device_type): return`.
check_doesnt_have_library_impl_noskip(st, h, device_type) ==
    IF st.err # "ok" THEN st
    ELSE IF ~HostFindOp(st.kernels, ops[h].qualname) THEN Raise(st, "HostNotFound")
    ELSE IF HostHasComputedKernel(st.kernels, ops[h].qualname,
                                  SUPPORTED_DEVICE_TYPE_TO_KEY[device_type])
    THEN Raise(st, "ExternalConflict")
    ELSE st

\* CustomOp._check_doesnt_have_library_impl
check_doesnt_have_library_impl(st, h, device_type) ==
    IF st.err # "ok" THEN st
    ELSE IF _has_impl(st.impls, device_type) THEN st
    ELSE IF ~HostFindOp(st.kernels, ops[h].qualname) THEN Raise(st, "HostNotFound")
    ELSE IF HostHasComputedKernel(st.kernels, ops[h].qualname,
                                  SUPPORTED_DEVICE_TYPE_TO_KEY[device_type])
    THEN Raise(st, "ExternalConflict")
    ELSE st

\* One round of the loop of CustomOp.impl.inner.
impl_one(st, h, device_type, f, loc) ==
    lib_impl(register_impl(check_doesnt_have_library_impl(st, h, device_type),
                           device_type, f, loc),
             h, SUPPORTED_DEVICE_TYPE_TO_KEY[device_type])

RECURSIVE impl_loop(_, _, _, _, _)
\* for device_type in set(device_types): order is the order the set is walked in.
impl_loop(st, h, order, f, loc) ==
    IF order = <<>> THEN st
    ELSE impl_loop(impl_one(st, h, Head(order), f, loc), h, Tail(order), f, loc)

\* validate_device_type over the device types of an impl call
validate_device_types_err(device_types) ==
    IF \E d \in device_types : d \notin DOMAIN SUPPORTED_DEVICE_TYPE_TO_KEY
    THEN "InvalidDeviceType" ELSE "ok"

\* _check_doesnt_have_library_meta_impl with the CompositeImplicitAutograd test made
\* before the CompositeExplicitAutograd escape hatch.
check_doesnt_have_library_meta_impl_implicit_first(st, h) ==
    LET q == ops[h].qualname
    IN  IF st.err # "ok" THEN st
        ELSE IF _has_impl(st.impls, "abstract") THEN st
        ELSE IF ~HostFindOp(st.kernels, q) THEN Raise(st, "HostNotFound")
        ELSE IF HostHasKernel(st.kernels, q, "CompositeImplicitAutograd")
        THEN Raise(st, "ExternalConflict")
        ELSE IF /\ HostHasKernel(st.kernels, q, "CompositeExplicitAutograd")
                /\ ~HostHasKernel(st.kernels, q, "Meta")
        THEN st
        ELSE IF HostHasKernel(st.kernels, q, "Meta") THEN Raise(st, "ExternalConflict")
        ELSE st

\* CustomOp._check_doesnt_have_library_meta_impl
check_doesnt_have_library_meta_impl(st, h) ==
    LET q == ops[h].qualname
    IN  IF st.err # "ok" THEN st
        ELSE IF _has_impl(st.impls, "abstract") THEN st
        ELSE IF ~HostFindOp(st.kernels, q) THEN Raise(st, "HostNotFound")
        ELSE IF /\ HostHasKernel(st.kernels, q, "CompositeExplicitAutograd")
                /\ ~HostHasKernel(st.kernels, q, "Meta")
        THEN st
        ELSE IF HostHasKernel(st.kernels, q, "CompositeImplicitAutograd")
        THEN Raise(st, "ExternalConflict")
        ELSE IF HostHasKernel(st.kernels, q, "Meta") THEN Raise(st, "ExternalConflict")
        ELSE st

\* CustomOp._check_can_register_backward
check_can_register_backward(st, h) ==
    IF st.err # "ok" THEN st
    ELSE IF ops[h].schema.mutable THEN Raise(st, "CannotRegisterBackward")
    ELSE IF ops[h].schema.nrets = 0 THEN Raise(st, "CannotRegisterBackward")
    ELSE IF ops[h].schema.views THEN Raise(st, "CannotRegisterBackward")
    ELSE st

\* CustomOp._check_doesnt_have_library_autograd_impl
check_doesnt_have_library_autograd_impl(st, h) ==
    LET q == ops[h].qualname
    IN  IF st.err # "ok" THEN st
        ELSE IF st.ind THEN st
        ELSE IF ~HostFindOp(st.kernels, q) THEN Raise(st, "HostNotFound")
        ELSE IF HostHasKernel(st.kernels, q, "CompositeImplicitAutograd")
        THEN Raise(st, "ExternalConflict")
        ELSE IF \E key \in {"Autograd", "AutogradCPU", "AutogradCUDA"} :
                    HostHasKernel(st.kernels, q, key)
        THEN Raise(st, "ExternalConflict")
        ELSE st

\* CustomOp._register_autograd_kernel_indirection: the assertion, self._lib.impl, the flag.
_register_autograd_kernel_indirection(st, h) ==
    IF st.err # "ok" THEN st
    ELSE IF st.ind THEN Raise(st, "AssertionError")
    ELSE LET t == lib_impl(st, h, "Autograd")
         IN  IF t.err # "ok" THEN t ELSE [t EXCEPT !.ind = TRUE]

\* self._register_autograd_kernel_indirection() called without looking at the flag.
register_autograd_kernel_indirection_unguarded(st, h) ==
    _register_autograd_kernel_indirection(st, h)

\* if not self._registered_autograd_kernel_indirection:
\*     self._register_autograd_kernel_indirection()
register_autograd_kernel_indirection(st, h) ==
    IF st.err # "ok" \/ st.ind THEN st
    ELSE _register_autograd_kernel_indirection(st, h)

\* if self._has_impl(other): self._register_autograd_kernel()
register_autograd_kernel(st, h, other) ==
    IF st.err # "ok" \/ ~_has_impl(st.impls, other) THEN st
    ELSE IF get_op_err(hostDefs, ops[h].qualname) # "ok"
    THEN Raise(st, get_op_err(hostDefs, ops[h].qualname))
    ELSE register_impl(st, "autograd", "autograd_kernel", "impl.py")

\* The body of impl_backward.inner / impl_save_for_backward.inner registering `kind`.
impl_backward_kind(st, h, kind, other, f, loc) ==
    register_autograd_kernel(
        register_impl(
            register_autograd_kernel_indirection(
                check_doesnt_have_library_autograd_impl(check_can_register_backward(st, h), h),
                h),
            kind, f, loc),
        h, other)

UserImpls(impls) == Cardinality({k \in Kinds \ {"autograd"} : _has_impl(impls, k)})

\* The effect of a register call that ended in state st on object h.
Registered(op, h, kinds, st) ==
    /\ TotalImpls - UserImpls(ops[h].impls) + UserImpls(st.impls) <= MaxImpls
    /\ ops' = [ops EXCEPT ![h].impls = st.impls, ![h].indirection = st.ind]
    /\ hostKernels' = st.kernels
    /\ last' = Result(op, h, ops[h].qualname, kinds, st.err, "none")
    /\ UNCHANGED <<global_registry, hostDefs>>

RECURSIVE impl_loop_validating(_, _, _, _, _)
\* The loop of impl.inner with validate_device_type moved into it.
impl_loop_validating(st, h, order, f, loc) ==
    IF order = <<>> THEN st
    ELSE IF st.err = "ok" /\ validate_device_types_err({Head(order)}) # "ok"
    THEN Raise(st, validate_device_types_err({Head(order)}))
    ELSE impl_loop_validating(impl_one(st, h, Head(order), f, loc), h, Tail(order), f, loc)

\* CustomOp.impl that validates each device type only when the loop reaches it.
impl_validating_late(h, order, f, loc) ==
    Registered("impl", h, {order[i] : i \in 1..Len(order)},
               impl_loop_validating(RegState(h), h, order, f, loc))

\* CustomOp.impl(device_types)(f); order lists set(device_types) as the loop walks it
impl(h, order, f, loc) ==
    LET device_types == {order[i] : i \in 1..Len(order)}
    IN  IF validate_device_types_err(device_types) # "ok"
        THEN Registered("impl", h, device_types,
                        Raise(RegState(h), validate_device_types_err(device_types)))
        ELSE Registered("impl", h, device_types, impl_loop(RegState(h), h, order, f, loc))

\* CustomOp.impl_factory()(f)
impl_factory(h, f, loc) ==
    Registered("impl_factory", h, {"factory"},
               lib_impl(register_impl(RegState(h), "factory", f, loc), h, "BackendSelect"))

\* CustomOp.impl_abstract()(f)
impl_abstract(h, f, loc) ==
    Registered("impl_abstract", h, {"abstract"},
               lib_impl(register_impl(check_doesnt_have_library_meta_impl(RegState(h), h),
                                      "abstract", f, loc),
                        h, "Meta"))

\* CustomOp.impl_backward()(f)
impl_backward(h, f, loc) ==
    Registered("impl_backward", h, {"backward"},
               impl_backward_kind(RegState(h), h, "backward", "save_for_backward", f, loc))

\* CustomOp.impl_save_for_backward()(f)
impl_save_for_backward(h, f, loc) ==
    Registered("impl_save_for_backward", h, {"save_for_backward"},
               impl_backward_kind(RegState(h), h, "save_for_backward", "backward", f, loc))

(* ----------------------- reads through a handle ----------------------- *)

\* CustomOp._has_impl(kind) through a kept handle
has_impl(h, kind) ==
    /\ last' = Result("has_impl", h, ops[h].qualname, {kind}, "ok",
                      IF _has_impl(ops[h].impls, kind) THEN "True" ELSE "False")
    /\ UNCHANGED <<ops, global_registry, hostDefs, hostKernels>>

\* CustomOp._get_impl(kind) through a kept handle: self._impls[kind]
get_impl(h, kind) ==
    /\ last' = IF _has_impl(ops[h].impls, kind)
               THEN Result("get_impl", h, ops[h].qualname, {kind}, "ok",
                           ops[h].impls[kind].func)
               ELSE Result("get_impl", h, ops[h].qualname, {kind}, "KeyError", "none")
    /\ UNCHANGED <<ops, global_registry, hostDefs, hostKernels>>

(* ------------------------------- calling ------------------------------ *)

\* The backend dispatch key the dispatcher gives a tensor of each device type.
DeviceKey == [cpu |-> "CPU", cuda |-> "CUDA", meta |-> "Meta"]

\* Device types from the highest priority to the lowest.
DevicePriority == <<"cuda", "cpu", "meta">>

\* The device types of the tensor arguments of a call.
TensorKinds(args) == {args[i] : i \in 1..Len(args)} \cap DOMAIN DeviceKey

HighestPriority(kinds) ==
    DevicePriority[CHOOSE i \in 1..Len(DevicePriority) :
                       /\ DevicePriority[i] \in kinds
                       /\ \A j \in 1..(i - 1) : DevicePriority[j] \notin kinds]

\* The backend dispatch key computed from the arguments of a call.
dispatch_key(args) ==
    IF TensorKinds(args) = {} THEN "Undefined"
    ELSE DeviceKey[HighestPriority(TensorKinds(args))]

\* The keys whose kernel fills the dispatch table entry of `key`, first match wins;
\* a call without tensors runs the BackendSelect kernel.
KernelKeys(key) ==
    IF key = "Undefined" THEN <<"BackendSelect">>
    ELSE <<key, "CompositeExplicitAutograd", "CompositeImplicitAutograd">>

HasKernelFor(q, key) ==
    \E i \in 1..Len(KernelKeys(key)) : HostHasKernel(hostKernels, q, KernelKeys(key)[i])

\* The kernel the dispatcher runs for `key`.
KernelFor(q, key) ==
    LET keys == KernelKeys(key)
        i == CHOOSE n \in 1..Len(keys) :
                 /\ HostHasKernel(hostKernels, q, keys[n])
                 /\ \A j \in 1..(n - 1) : ~HostHasKernel(hostKernels, q, keys[j])
    IN  CHOOSE k \in HostKernelsOf(hostKernels, q, keys[i]) : TRUE

\* The kind whose callable the register calls install under a dispatch key: impl
\* installs device_type under SUPPORTED_DEVICE_TYPE_TO_KEY[device_type], impl_factory
\* under BackendSelect, impl_abstract under Meta.
KindOfKey(key) ==
    IF \E d \in DOMAIN SUPPORTED_DEVICE_TYPE_TO_KEY : SUPPORTED_DEVICE_TYPE_TO_KEY[d] = key
    THEN CHOOSE d \in DOMAIN SUPPORTED_DEVICE_TYPE_TO_KEY : SUPPORTED_DEVICE_TYPE_TO_KEY[d] = key
    ELSE IF key = "BackendSelect" THEN "factory"
    ELSE IF key = "Meta" THEN "abstract"
    ELSE "autograd"

\* The callable behind a kernel: the one its owner registered for the kind and then
\* handed to library.impl, or another library's.
KernelFunc(k) ==
    IF k[3] = 0 THEN "external" ELSE ops[k[3]].impls[KindOfKey(k[2])].func

\* key.lower() of the keys report_error_callback names a device for.
KeyLower == [CPU |-> "cpu", CUDA |-> "cuda"]

\* report_error_callback without its branch for the Meta key.
report_error_callback_nometa(key) ==
    IF key = "Undefined" THEN "NoTensorInputs"
    ELSE IF key \in {"CPU", "CUDA"} THEN "NoImplementation(" \o KeyLower[key] \o ")"
    ELSE "NoImplementation(" \o key \o ")"

\* report_error_callback without its branch for the CPU and CUDA keys.
report_error_callback_generic(key) ==
    IF key = "Undefined" THEN "NoTensorInputs"
    ELSE IF key = "Meta" THEN "NoAbstractImpl"
    ELSE "NoImplementation(" \o key \o ")"

\* report_error_callback(custom_op, key): the error a call raises when the dispatcher
\* has no kernel for key.
report_error_callback(key) ==
    IF key = "Undefined" THEN "NoTensorInputs"
    ELSE IF key = "Meta" THEN "NoAbstractImpl"
    ELSE IF key \in {"CPU", "CUDA"} THEN "NoImplementation(" \o KeyLower[key] \o ")"
    ELSE "NoImplementation(" \o key \o ")"

\* The implementation the dispatcher selects for the arguments of a call on a live
\* object: "ok" and the kernel's callable, or the error report_error_callback raises.
select_err(h, args) ==
    IF HasKernelFor(ops[h].qualname, dispatch_key(args)) THEN "ok"
    ELSE report_error_callback(dispatch_key(args))

select_ret(h, args) ==
    IF select_err(h, args) # "ok" THEN "none"
    ELSE KernelFunc(KernelFor(ops[h].qualname, dispatch_key(args)))

\* autograd_kernel_indirection of object h refuses to run while one of 'backward' and
\* 'save_for_backward' is registered without the other, i.e. without 'autograd'.
IncompleteComposition(h) ==
    /\ ~_has_impl(ops[h].impls, "autograd")
    /\ _has_impl(ops[h].impls, "backward") \/ _has_impl(ops[h].impls, "save_for_backward")

\* A call reaches the kernel under the Autograd key when a tensor argument requires
\* grad and the key holds the indirection kernel of an object.
ThroughIndirection(h, args, requires_grad) ==
    /\ requires_grad
    /\ TensorKinds(args) # {}
    /\ \E k \in HostKernelsOf(hostKernels, ops[h].qualname, "Autograd") : k[3] # 0

IndirectionOwner(h) ==
    (CHOOSE k \in HostKernelsOf(hostKernels, ops[h].qualname, "Autograd") : k[3] # 0)[3]

\* The error of CustomOp.__call__(*args) on a live object ("ok": it runs a kernel).
call_err(h, args, requires_grad) ==
    IF ThroughIndirection(h, args, requires_grad)
    THEN IF IncompleteComposition(IndirectionOwner(h)) THEN "IncompleteComposition"
         ELSE IF _has_impl(ops[IndirectionOwner(h)].impls, "autograd") THEN "ok"
         ELSE select_err(h, args)
    ELSE select_err(h, args)

\* The implementation CustomOp.__call__(*args) runs on a live object.
call_ret(h, args, requires_grad) ==
    IF call_err(h, args, requires_grad) # "ok" THEN "none"
    ELSE IF /\ ThroughIndirection(h, args, requires_grad)
            /\ _has_impl(ops[IndirectionOwner(h)].impls, "autograd")
    THEN ops[IndirectionOwner(h)].impls["autograd"].func
    ELSE select_ret(h, args)

\* The argument properties a call is recorded with.
ArgProperties(args, requires_grad) ==
    TensorKinds(args) \cup (IF requires_grad THEN {"requires_grad"} ELSE {})

\* A __call__ that caches the callable it ran as the 'cpu' implementation.
call_caching(h, args, requires_grad) ==
    /\ ops[h].lib
    /\ last' = Result("call", h, ops[h].qualname, ArgProperties(args, requires_grad),
                      call_err(h, args, requires_grad), call_ret(h, args, requires_grad))
    /\ ops' = [ops EXCEPT ![h].impls["cpu"] =
                   FuncAndLocation(call_ret(h, args, requires_grad), "cache")]
    /\ UNCHANGED <<global_registry, hostDefs, hostKernels>>

\* CustomOp.__call__(*args): _C._dispatch_call_boxed(self._ophandle, *args). The
\* handle of a destroyed object dangles: the call is refused or the process dies.
call(h, args, requires_grad) ==
    /\ IF ops[h].lib
       THEN last' = Result("call", h, ops[h].qualname, ArgProperties(args, requires_grad),
                           call_err(h, args, requires_grad), call_ret(h, args, requires_grad))
       ELSE \E outcome \in {"NotFound", "Crash"} :
                last' = Result("call", h, ops[h].qualname,
                               ArgProperties(args, requires_grad), outcome, "none")
    /\ UNCHANGED <<ops, global_registry, hostDefs, hostKernels>>

(* --------------------------- schema inference ------------------------- *)

\* A type annotation: a base type under one of the typing forms derived_types builds.
Ann(base, form) == [base |-> base, form |-> form]

\* inspect.Parameter.empty / inspect.Signature.empty
Empty == Ann("empty", "T")

\* A schema type: the C++ type name, the alias annotation of a mutated Tensor, the suffix.
Ty(cpp_type, suffix) == [base |-> cpp_type, alias |-> <<>>, suffix |-> suffix]

supported_param(param) == param.kind \in {"POSITIONAL_OR_KEYWORD", "KEYWORD_ONLY"}

derived_types(base_type, cpp_type, list_base, optional_base_list, optional_list_base) ==
    {<<Ann(base_type, "T"), Ty(cpp_type, "")>>,
     <<Ann(base_type, "Optional[T]"), Ty(cpp_type, "?")>>}
    \cup (IF list_base
          THEN {<<Ann(base_type, f), Ty(cpp_type, "[]")>> : f \in {"Sequence[T]", "List[T]"}}
          ELSE {})
    \cup (IF optional_base_list
          THEN {<<Ann(base_type, f), Ty(cpp_type, "?[]")>> :
                    f \in {"Sequence[Optional[T]]", "List[Optional[T]]"}}
          ELSE {})
    \cup (IF optional_list_base
          THEN {<<Ann(base_type, f), Ty(cpp_type, "[]?")>> :
                    f \in {"Optional[Sequence[T]]", "Optional[List[T]]"}}
          ELSE {})

get_supported_param_types ==
    LET data == {<<"Tensor", "Tensor", TRUE, TRUE, FALSE>>,
                 <<"int", "SymInt", TRUE, FALSE, TRUE>>,
                 <<"float", "float", TRUE, FALSE, TRUE>>,
                 <<"bool", "bool", TRUE, FALSE, TRUE>>,
                 <<"str", "str", FALSE, FALSE, FALSE>>,
                 <<"Number", "Scalar", TRUE, FALSE, FALSE>>,
                 <<"dtype", "ScalarType", FALSE, FALSE, FALSE>>,
                 <<"device", "Device", FALSE, FALSE, FALSE>>}
    IN  UNION {derived_types(l[1], l[2], l[3], l[4], l[5]) : l \in data}

SUPPORTED_PARAM_TYPES == get_supported_param_types

SUPPORTED_RETURN_TYPES ==
    {<<Ann("Tensor", "T"), Ty("Tensor", "")>>,
     <<Ann("Tensor", "List[T]"), Ty("Tensor", "[]")>>,
     <<Ann("int", "T"), Ty("SymInt", "")>>,
     <<Ann("float", "T"), Ty("float", "")>>,
     <<Ann("bool", "T"), Ty("bool", "")>>,
     <<Ann("Number", "T"), Ty("Scalar", "")>>}

\* dict.keys() and dict[key] of the two tables
Keys(table) == {e[1] : e \in table}
Lookup_type(table, annotation) == (CHOOSE e \in table : e[1] = annotation)[2]

\* A return annotation: None, one type, or typing.Tuple of the types in args.
RetNone == [origin |-> "None", args |-> <<>>]
RetOf(annotation) == [origin |-> "type", args |-> <<annotation>>]
RetTuple(args) == [origin |-> "tuple", args |-> args]

\* parse_return(annotation, error_fn): the schema types of the returns, or the error.
parse_return(annotation) ==
    IF annotation.origin = "None" THEN [err |-> "ok", rets |-> <<>>]
    ELSE IF annotation.origin # "tuple"
    THEN IF annotation.args[1] \notin Keys(SUPPORTED_RETURN_TYPES)
         THEN [err |-> "UnsupportedType", rets |-> <<>>]
         ELSE [err |-> "ok",
               rets |-> <<Lookup_type(SUPPORTED_RETURN_TYPES, annotation.args[1])>>]
    ELSE IF \E i \in 1..Len(annotation.args) :
                annotation.args[i] \notin Keys(SUPPORTED_RETURN_TYPES)
    THEN [err |-> "UnsupportedType", rets |-> <<>>]
    ELSE [err |-> "ok",
          rets |-> [i \in 1..Len(annotation.args) |->
                       Lookup_type(SUPPORTED_RETURN_TYPES, annotation.args[i])]]

\* The loop of infer_schema over sig.parameters.items(), from the idx-th parameter on
\* (idx counts from 1 here, the alias annotation from 0 as in the source).
RECURSIVE infer_params(_, _, _)
infer_params(parameters, idx, mutated_args) ==
    IF idx > Len(parameters) THEN [err |-> "ok", params |-> <<>>]
    ELSE LET param == parameters[idx]
             name == param.name
         IN  IF ~supported_param(param) THEN [err |-> "UnsupportedParameter", params |-> <<>>]
             ELSE IF param.annotation = Empty
             THEN [err |-> "MissingAnnotation", params |-> <<>>]
             ELSE IF param.annotation \notin Keys(SUPPORTED_PARAM_TYPES)
             THEN [err |-> "UnsupportedType", params |-> <<>>]
             ELSE IF param.default
             THEN [err |-> "DefaultValueNotSupported", params |-> <<>>]
             ELSE LET schema_type == Lookup_type(SUPPORTED_PARAM_TYPES, param.annotation)
                      rest == infer_params(parameters, idx + 1, mutated_args)
                  IN  IF name \in mutated_args /\ schema_type.base # "Tensor"
                      THEN [err |-> "InvalidMutation", params |-> <<>>]
                      ELSE IF rest.err # "ok" THEN rest
                      ELSE [err |-> "ok",
                            params |-> <<[type |-> IF name \in mutated_args
                                                   THEN [schema_type EXCEPT !.alias = <<idx - 1>>]
                                                   ELSE schema_type,
                                          name |-> name]>> \o rest.params]

\* infer_schema that does not look at the kind of a mutated parameter.
infer_schema_mutate_any(signature, mutated_args) ==
    LET ps == infer_params(signature.parameters, 1, {})
        ret == parse_return(signature.return_annotation)
    IN  IF ps.err # "ok" THEN [err |-> ps.err, params |-> <<>>, rets |-> <<>>]
        ELSE IF ret.err # "ok" THEN [err |-> ret.err, params |-> <<>>, rets |-> <<>>]
        ELSE [err |-> "ok",
              params |-> [i \in 1..Len(ps.params) |->
                             IF ps.params[i].name \in mutated_args
                             THEN [ps.params[i] EXCEPT !.type.alias = <<i - 1>>]
                             ELSE ps.params[i]],
              rets |-> ret.rets]

\* infer_schema(prototype_function, mutated_args): the schema "(params) -> ret" as
\* its parameters (schema type and name) and its return types, or the error raised.
infer_schema(signature, mutated_args) ==
    LET ps == infer_params(signature.parameters, 1, mutated_args)
        ret == parse_return(signature.return_annotation)
    IN  IF ps.err # "ok" THEN [err |-> ps.err, params |-> <<>>, rets |-> <<>>]
        ELSE IF ret.err # "ok" THEN [err |-> ret.err, params |-> <<>>, rets |-> <<>>]
        ELSE [err |-> "ok", params |-> ps.params, rets |-> ret.rets]

\* FunctionSchema.parse of the text infer_schema renders: what validate_schema looks at.
parse_inferred(schema) ==
    [parses |-> TRUE,
     mutable |-> \E i \in 1..Len(schema.params) : schema.params[i].type.alias # <<>>,
     views |-> FALSE,
     nrets |-> Len(schema.rets),
     self_arg |-> \E i \in 1..Len(schema.params) : schema.params[i].name = "self"]

\* The parameters of one kind, in order: the two list comprehensions of
\* validate_function_matches_schema.
RECURSIVE OfKind(_, _)
OfKind(parameters, kind) ==
    IF parameters = <<>> THEN <<>>
    ELSE (IF Head(parameters).kind = kind THEN <<Head(parameters)>> ELSE <<>>)
         \o OfKind(Tail(parameters), kind)

\* compare(sig_args, schema_args) of validate_function_matches_schema
compare(sig_args, schema_args) ==
    IF Len(sig_args) # Len(schema_args) THEN "SignatureMismatch"
    ELSE LET bad == {i \in 1..Len(sig_args) :
                        \/ sig_args[i].name # schema_args[i].name
                        \/ sig_args[i].default
                        \/ schema_args[i].default}
         IN  IF bad = {} THEN "ok" ELSE "SignatureMismatch"

\* validate_function_matches_schema that skips the check for type annotations.
validate_function_matches_schema_annotated(schema, signature) ==
    IF \E i \in 1..Len(signature.parameters) : ~supported_param(signature.parameters[i])
    THEN "SignatureMismatch"
    ELSE IF compare(OfKind(signature.parameters, "POSITIONAL_OR_KEYWORD"),
                    schema.flat_positional) # "ok"
    THEN "SignatureMismatch"
    ELSE compare(OfKind(signature.parameters, "KEYWORD_ONLY"), schema.flat_kwarg_only)

\* validate_function_matches_schema(schema, func): "ok", or the ValueError it raises.
validate_function_matches_schema(schema, signature) ==
    IF \E i \in 1..Len(signature.parameters) : ~supported_param(signature.parameters[i])
    THEN "SignatureMismatch"
    ELSE IF \/ \E i \in 1..Len(signature.parameters) :
                   signature.parameters[i].annotation # Empty
            \/ signature.return_annotation # RetOf(Empty)
    THEN "SignatureMismatch"
    ELSE IF compare(OfKind(signature.parameters, "POSITIONAL_OR_KEYWORD"),
                    schema.flat_positional) # "ok"
    THEN "SignatureMismatch"
    ELSE compare(OfKind(signature.parameters, "KEYWORD_ONLY"), schema.flat_kwarg_only)

(* ---------------------------- error messages -------------------------- *)

\* One value an error message interpolates: what it is and the value itself.
Part(what, value) == [what |-> what, value |-> value]

\* The ValueError of parse_qualname: both of its messages print {qualname}.
parse_qualname_message(qualname) == <<Part("qualname", qualname)>>

\* The ValueError of validate_namespace: both of its messages print {ns} only.
validate_namespace_message(ns) == <<Part("ns", ns), Part("ns", ns)>>

\* The ValueError of custom_op.inner for func.__name__ != name.
name_mismatch_message(qualname, name, func) ==
    <<Part("qualname", qualname), Part("name", name), Part("name", func.name)>>

\* The ValueError of validate_schema: both of its messages print {schema} only.
validate_schema_message(schema) == <<Part("schema", schema)>>

\* The ValueError of validate_function_matches_schema: {sig}, and {schema} but for
\* the first two messages.
validate_function_matches_schema_message(schema) ==
    <<Part("signature", "sig"), Part("schema", schema)>>

\* The RuntimeError of _register_impl.
register_impl_message(impls, qualname, kind) ==
    <<Part("kind", kind), Part("qualname", qualname), Part("kind", kind),
      Part("location", impls[kind].location)>>

\* The ValueError of validate_device_type.
validate_device_type_message(device_type) ==
    <<Part("device_type", device_type), Part("keys", DOMAIN SUPPORTED_DEVICE_TYPE_TO_KEY)>>

\* The RuntimeError of _check_doesnt_have_library_impl.
check_doesnt_have_library_impl_message(qualname, device_type) ==
    <<Part("device_type", device_type), Part("qualname", qualname)>>

\* The RuntimeErrors of _check_doesnt_have_library_meta_impl.
check_doesnt_have_library_meta_impl_message(qualname) == <<Part("qualname", qualname)>>

\* The RuntimeErrors of _check_doesnt_have_library_autograd_impl.
check_doesnt_have_library_autograd_impl_message(qualname) == <<Part("qualname", qualname)>>

\* The RuntimeError of _check_can_register_backward.
check_can_register_backward_message(qualname, schema) ==
    <<Part("detail", "detail"), Part("qualname", qualname), Part("schema", schema)>>

\* The NotImplementedError of report_error_callback: {custom_op} is the __repr__ of the
\* object, <CustomOp(op="{self._qualname}")>.
report_error_callback_message(qualname, key) ==
    IF key \in {"Undefined", "Meta"} THEN <<Part("qualname", qualname)>>
    ELSE IF key \in {"CPU", "CUDA"}
    THEN <<Part("qualname", qualname), Part("kind", KeyLower[key]),
           Part("kind", KeyLower[key]), Part("kind", KeyLower[key])>>
    ELSE <<Part("qualname", qualname), Part("key", key)>>

\* The errors this module raises itself, with a message of its own.
ModuleErrors ==
    {"InvalidName", "ReservedNamespace", "NameMismatch", "NonFunctionalSchema",
     "SignatureMismatch", "DuplicateKindRegistration", "InvalidDeviceType", "ExternalConflict",
     "CannotRegisterBackward", "NoTensorInputs", "NoAbstractImpl"}
    \cup {report_error_callback(key) : key \in {"CPU", "CUDA"}}

\* The message of the error the call c raised, impls being the kind map of the object
\* the call was made on.
message(c, impls) ==
    LET ns == parse_qualname(c.q)[1]
        kind == CHOOSE k \in c.kinds : TRUE
    IN  CASE c.err = "InvalidName" ->
                 IF c.op = "custom_op_with_schema" THEN <<>>
                 ELSE IF parse_qualname_err(c.q) # "ok" THEN parse_qualname_message(c.q)
                 ELSE validate_namespace_message(ns)
          [] c.err = "ReservedNamespace" -> validate_namespace_message(ns)
          [] c.err = "NameMismatch" -> name_mismatch_message(c.q, parse_qualname(c.q)[2], P_g)
          [] c.err = "NonFunctionalSchema" -> validate_schema_message("schema")
          [] c.err = "SignatureMismatch" -> validate_function_matches_schema_message("schema")
          [] c.err = "DuplicateKindRegistration" -> register_impl_message(impls, c.q, kind)
          [] c.err = "InvalidDeviceType" ->
                 validate_device_type_message(
                     CHOOSE d \in c.kinds : d \notin DOMAIN SUPPORTED_DEVICE_TYPE_TO_KEY)
          [] c.err = "ExternalConflict" ->
                 IF c.op = "impl" THEN check_doesnt_have_library_impl_message(c.q, kind)
                 ELSE IF c.op = "impl_abstract"
                 THEN check_doesnt_have_library_meta_impl_message(c.q)
                 ELSE check_doesnt_have_library_autograd_impl_message(c.q)
          [] c.err = "CannotRegisterBackward" ->
                 check_can_register_backward_message(c.q, "schema")
          [] OTHER ->
                 report_error_callback_message(
                     c.q, CHOOSE key \in {"Undefined", "Meta", "CPU", "CUDA"} :
                              report_error_callback(key) = c.err)

(* -------------------------- streams and events ------------------------ *)

\* The backend event every record gets the same handle for.
NewEventId_same(evs) == 1

\* The handle of a backend event created now: an address no other event holds.
NewEventId(evs) ==
    1 + Cardinality({i \in DOMAIN evs : evs[i].event_id # 0})

\* A record that creates a backend event each time.
record_always_new(evs, e, s) ==
    [evs EXCEPT ![e].event_id = 1 + MaxEvents + evs[e].recorded,
                ![e].stream = s,
                ![e].recorded = @ + 1]

\* Recording event e on stream s: the backend event is created on the first record
\* and kept afterwards.
record(evs, e, s) ==
    [evs EXCEPT ![e].event_id = IF @ = 0 THEN NewEventId(evs) ELSE @,
                ![e].stream = s,
                ![e].recorded = @ + 1]

\* s = torch.Stream()
Stream ==
    /\ Len(streams) < MaxStreams
    /\ streams' = Append(streams, [stream_id |-> Len(streams) + 1])
    /\ UNCHANGED events

\* e = torch.Event(): no backend event yet, event_id is 0
Event ==
    /\ Len(events) < MaxEvents
    /\ events' = Append(events, [event_id |-> 0, stream |-> 0, recorded |-> 0,
                                 made_by |-> "Event"])
    /\ UNCHANGED streams

\* s.record_event(event=e)
record_event(s, e) ==
    /\ events[e].recorded < MaxRecords
    /\ events' = record(events, e, s)
    /\ UNCHANGED streams

\* e2 = s.record_event(): a new event, recorded on s
record_event_new(s) ==
    /\ Len(events) < MaxEvents
    /\ events' = record(Append(events, [event_id |-> 0, stream |-> 0, recorded |-> 0,
                                        made_by |-> "record_event"]),
                        Len(events) + 1, s)
    /\ UNCHANGED streams

\* e.record(stream=s)
event_record(e, s) ==
    /\ events[e].recorded < MaxRecords
    /\ events' = record(events, e, s)
    /\ UNCHANGED streams

(* ------------------------------ the system ---------------------------- *)

\* The (func, manual_schema given?, schema) arguments handed to custom_op.
DeclArgs ==
    {<<P_f, FALSE, S_ok>>, <<P_f, TRUE, S_ok>>, <<P_int, FALSE, S_ok>>, <<P_g, FALSE, S_ok>>,
     <<P_noname, FALSE, S_ok>>, <<P_sig, TRUE, S_ok>>, <<P_f, FALSE, S_noret>>,
     <<P_f, FALSE, S_self>>, <<P_f, TRUE, S_mut>>, <<P_f, TRUE, S_bad>>}

\* The orders in which impl walks one or two device types.
Orders ==
    {<<a>> : a \in DeviceTypes} \cup {o \in DeviceTypes \X DeviceTypes : o[1] # o[2]}

Declare(names) ==
    \/ \E q \in names, a \in DeclArgs : custom_op(q, a[1], a[2], a[3])
    \/ \E q \in names, s \in DeclSchemas : custom_op_with_schema(q, s)

Lookup(names) ==
    \/ \E d \in hostDefs : custom_op_from_existing(d)
    \/ \E q \in names, also \in BOOLEAN : find_custom_op(q, also)
    \/ \E q \in names : get_abstract_impl(q)

Destroy == \E h \in Handles : destroy(h)

ExternalDefs(schemas) == \E q \in ExtNames, s \in schemas : ExternalDefine(q, s)

ExternalKernels(keys) == \E key \in keys : ExternalImpl(Q_mf, key)

RegisterAbstract(inputs) == \E h \in Handles, r \in inputs : impl_abstract(h, r[1], r[2])

Register ==
    \E h \in Handles, r \in RegInputs :
        \/ \E order \in Orders : impl(h, order, r[1], r[2])
        \/ impl_factory(h, r[1], r[2])
        \/ impl_backward(h, r[1], r[2])
        \/ impl_save_for_backward(h, r[1], r[2])

Read ==
    \E h \in Handles, kind \in Kinds :
        \/ has_impl(h, kind)
        \/ get_impl(h, kind)

\* No thread is inside a declaration.
NoThreads == threads = [t \in Threads |-> IdleThread]

\* A manual schema's arguments: flat_positional and flat_kwarg_only.
Arguments(positional, kwarg_only) ==
    [flat_positional |-> positional, flat_kwarg_only |-> kwarg_only]

\* inspect.signature(func): the parameters in order and the return annotation.
Signature(parameters, return_annotation) ==
    [parameters |-> parameters, return_annotation |-> return_annotation]

NoOut ==
    [fn |-> "none", mutated_args |-> {}, manual |-> Arguments(<<>>, <<>>), err |-> "ok",
     schema |-> [params |-> <<>>, rets |-> <<>>], valid |-> "none"]

\* No schema function is under study.
NoSchemaCall ==
    /\ sig = Signature(<<>>, RetOf(Empty))
    /\ out = NoOut

\* The registry and the host dispatcher as they are when the module is imported.
Registry == <<ops, global_registry, hostDefs, hostKernels, last>>

\* No stream and no event exists.
NoStreams ==
    /\ streams = <<>>
    /\ events = <<>>

\* Calls that run to their end before the next one starts.
Sequential == UNCHANGED <<threads, sig, out, streams, events>>

InitAll ==
    /\ Init
    /\ NoThreads
    /\ NoSchemaCall
    /\ NoStreams

\* Declaration, lookup and teardown over every qualified name.
Next ==
    \/ Declare(QualNames) /\ Sequential
    \/ Lookup(QualNames) /\ Sequential
    \/ Destroy /\ Sequential
    \/ ExternalDefs({S_ok}) /\ Sequential
    \/ RegisterAbstract({<<"f", "L1">>}) /\ Sequential

Spec == InitAll /\ [][Next]_vars

\* Registration on the extension points of one well-formed name.
NextReg ==
    \/ Len(ops) < MaxRegOps /\ Declare({Q_mf}) /\ Sequential
    \/ Destroy /\ Sequential
    \/ ExternalKernels({"CPU"}) /\ Sequential
    \/ RegisterAbstract(RegInputs) /\ Sequential
    \/ Register /\ Sequential
    \/ Read /\ Sequential

SpecReg == InitAll /\ [][NextReg]_vars

\* The argument lists of the calls.
CallArgs ==
    {<<>>, <<"int">>, <<"cpu">>, <<"cuda">>, <<"meta">>, <<"cpu", "cuda">>, <<"cuda", "cpu">>}

CallRegInputs == {<<"f", "L1">>, <<"g", "L2">>}

CallExtKeys == {"CPU", "BackendSelect", "CompositeExplicitAutograd"}

DeclareCallable ==
    \/ custom_op(Q_mf, P_f, FALSE, S_ok)
    \/ custom_op_with_schema(Q_mf, S_ok)

RegisterCallable ==
    \E h \in Handles, r \in CallRegInputs :
        \/ \E order \in Orders : impl(h, order, r[1], r[2])
        \/ impl_factory(h, r[1], r[2])
        \/ impl_abstract(h, r[1], r[2])
        \/ impl_backward(h, r[1], r[2])
        \/ impl_save_for_backward(h, r[1], r[2])

Call == \E h \in Handles, args \in CallArgs, requires_grad \in BOOLEAN : call(h, args, requires_grad)

\* Registration and calls on the extension points of one well-formed name.
NextCall ==
    \/ Len(ops) < MaxRegOps /\ DeclareCallable /\ Sequential
    \/ Destroy /\ Sequential
    \/ ExternalKernels(CallExtKeys) /\ Sequential
    \/ RegisterCallable /\ Sequential
    \/ Call /\ Sequential
    \/ get_abstract_impl(Q_mf) /\ Sequential

SpecCall == InitAll /\ [][NextCall]_vars

\* The schemas another registration surface defines operators with.
ExistingSchemas == {S_ok, S_noret, S_mut, S_self}

\* Extension points made from operators that another surface defined.
NextExisting ==
    \/ Declare({Q_mf}) /\ Sequential
    \/ Lookup(ExtNames) /\ Sequential
    \/ Destroy /\ Sequential
    \/ ExternalDefs(ExistingSchemas) /\ Sequential

SpecExisting == InitAll /\ [][NextExisting]_vars

\* The dispatch keys _check_doesnt_have_library_meta_impl asks the dispatcher about.
AbstractExtKeys == {"Meta", "CompositeExplicitAutograd", "CompositeImplicitAutograd"}

\* Other libraries register any of those kernels for the name.
ExternalMetaKernels == \E key \in AbstractExtKeys : ExternalImplUpTo(Q_mf, key, MaxMetaExtKernels)

\* Abstract implementations against the kernels other libraries registered.
NextAbstract ==
    \/ Declare({Q_mf}) /\ Sequential
    \/ Destroy /\ Sequential
    \/ ExternalMetaKernels /\ Sequential
    \/ RegisterAbstract(RegInputs) /\ Sequential

SpecAbstract == InitAll /\ [][NextAbstract]_vars

\* The declarations the racing threads make: both entry points, with arguments
\* that pass the checks and arguments that do not.
RaceArgs ==
    {<<"custom_op", P_f, FALSE, S_ok>>, <<"custom_op", P_f, TRUE, S_ok>>,
     <<"custom_op", P_g, FALSE, S_ok>>, <<"custom_op", P_f, FALSE, S_noret>>,
     <<"custom_op_with_schema", P_f, TRUE, S_ok>>, <<"custom_op_with_schema", P_f, TRUE, S_mut>>}

DeclareStep ==
    \E t \in Threads :
        \/ \E a \in RaceArgs : declare_define(t, a[1], Q_mf, a[2], a[3], a[4])
        \/ declare_construct(t)
        \/ declare_return(t)

\* Threads declaring the same name, their steps interleaved.
NextRace == DeclareStep /\ UNCHANGED <<sig, out, streams, events>>

SpecRace == InitAll /\ [][NextRace]_vars

Param(name, kind, annotation, default) ==
    [name |-> name, kind |-> kind, annotation |-> annotation, default |-> default]

\* The parameters the prototype functions are written with.
ParamChoices ==
    {Param("x", "POSITIONAL_OR_KEYWORD", a, FALSE) :
        a \in {Empty, Ann("Tensor", "T"), Ann("Tensor", "Optional[T]"), Ann("Tensor", "List[T]"),
               Ann("Tensor", "Sequence[Optional[T]]"), Ann("int", "T"),
               Ann("int", "Optional[List[T]]"), Ann("str", "List[T]"), Ann("dict", "T")}}
    \cup {Param("x", "POSITIONAL_OR_KEYWORD", a, TRUE) : a \in {Empty, Ann("int", "T")}}
    \cup {Param("x", k, a, FALSE) :
             k \in {"POSITIONAL_ONLY", "VAR_POSITIONAL"}, a \in {Empty, Ann("Tensor", "T")}}
    \cup {Param("y", k, a, FALSE) :
             k \in {"POSITIONAL_OR_KEYWORD", "KEYWORD_ONLY"},
             a \in {Empty, Ann("Tensor", "T"), Ann("float", "T")}}
    \cup {Param("y", "KEYWORD_ONLY", Empty, TRUE), Param("y", "VAR_KEYWORD", Empty, FALSE)}
    \cup {Param("self", "POSITIONAL_OR_KEYWORD", a, FALSE) : a \in {Empty, Ann("Tensor", "T")}}

KindRank ==
    [POSITIONAL_ONLY |-> 1, POSITIONAL_OR_KEYWORD |-> 2, VAR_POSITIONAL |-> 3,
     KEYWORD_ONLY |-> 4, VAR_KEYWORD |-> 5]

\* The parameter lists Python accepts in a def: distinct names, kinds in order, no
\* positional parameter without a default after one with a default.
ParameterLists ==
    {ps \in UNION {[1..n -> ParamChoices] : n \in 0..MaxParams} :
        \A i \in 1..Len(ps), j \in 1..Len(ps) :
            i < j =>
                /\ ps[i].name # ps[j].name
                /\ KindRank[ps[i].kind] <= KindRank[ps[j].kind]
                /\ (ps[i].default /\ ps[j].kind = "POSITIONAL_OR_KEYWORD") => ps[j].default}

ReturnAnnotations ==
    {RetNone, RetOf(Empty), RetOf(Ann("Tensor", "T")), RetOf(Ann("Tensor", "List[T]")),
     RetOf(Ann("str", "T")), RetTuple(<<>>), RetTuple(<<Ann("Tensor", "T"), Ann("int", "T")>>),
     RetTuple(<<Ann("Tensor", "T"), Ann("str", "T")>>)}

MutatedArgs == {{}, {"x"}, {"y"}, {"x", "y"}, {"z"}}

\* The arguments of the manual schemas: a name, and whether a default is declared.
SchemaArgs == [name : {"x", "y"}, default : BOOLEAN]

ManualSchemas ==
    {Arguments(pos, kw) :
        pos \in {a \in UNION {[1..n -> SchemaArgs] : n \in 0..MaxParams} :
                    \A i \in 1..Len(a), j \in 1..Len(a) : i < j => a[i].name # a[j].name},
        kw \in {<<>>, <<[name |-> "y", default |-> FALSE]>>, <<[name |-> "y", default |-> TRUE]>>}}

InitSchema ==
    /\ Init
    /\ NoThreads
    /\ sig \in {Signature(ps, r) : ps \in ParameterLists, r \in ReturnAnnotations}
    /\ out = NoOut
    /\ NoStreams

\* schema = infer_schema(func, mutated_args)
Infer ==
    \E mutated_args \in MutatedArgs :
        LET res == infer_schema(sig, mutated_args)
        IN  out' = [fn |-> "infer_schema", mutated_args |-> mutated_args,
                    manual |-> Arguments(<<>>, <<>>), err |-> res.err,
                    schema |-> [params |-> res.params, rets |-> res.rets], valid |-> "none"]

\* validate_schema(FunctionSchema.parse(schema_str)) on the schema just inferred
Validate ==
    /\ out.fn = "infer_schema"
    /\ out.err = "ok"
    /\ out' = [out EXCEPT !.fn = "validate_schema",
                          !.valid = validate_schema_err(parse_inferred(out.schema))]

\* validate_function_matches_schema(function_schema, func)
Matches ==
    \E manual \in ManualSchemas :
        out' = [fn |-> "validate_function_matches_schema", mutated_args |-> {},
                manual |-> manual, err |-> validate_function_matches_schema(manual, sig),
                schema |-> [params |-> <<>>, rets |-> <<>>], valid |-> "none"]

\* The schema functions applied to the signature of one prototype function.
NextSchema ==
    \/ Infer /\ UNCHANGED <<Registry, threads, sig, streams, events>>
    \/ Validate /\ UNCHANGED <<Registry, threads, sig, streams, events>>
    \/ Matches /\ UNCHANGED <<Registry, threads, sig, streams, events>>

SpecSchema == InitSchema /\ [][NextSchema]_vars

\* The calls of test_stream_event, on any stream and event, in any order.
NextStream ==
    \/ Stream /\ UNCHANGED <<Registry, threads, sig, out>>
    \/ Event /\ UNCHANGED <<Registry, threads, sig, out>>
    \/ (\E s \in DOMAIN streams, e \in DOMAIN events : record_event(s, e))
           /\ UNCHANGED <<Registry, threads, sig, out>>
    \/ (\E s \in DOMAIN streams : record_event_new(s))
           /\ UNCHANGED <<Registry, threads, sig, out>>
    \/ (\E s \in DOMAIN streams, e \in DOMAIN events : event_record(e, s))
           /\ UNCHANGED <<Registry, threads, sig, out>>

SpecStream == InitAll /\ [][NextStream]_vars

(* ============================== properties ============================ *)

RegisterOps == {"impl", "impl_factory", "impl_abstract", "impl_backward", "impl_save_for_backward"}

UserKinds == Kinds \ {"autograd"}

\* The step is a register call on object last'.h that names kind K while K is
\* already in that object's kind map.
RegistersAgain(K) ==
    /\ last'.op \in RegisterOps
    /\ K \in last'.kinds
    /\ _has_impl(ops[last'.h].impls, K)

\* C1 as stated: every register call naming an already registered kind K fails with
\* DuplicateKindRegistration.
C1_AlwaysDuplicateError ==
    [][\A K \in UserKinds : RegistersAgain(K) => last'.err = "DuplicateKindRegistration"]_vars

\* C1 amended: a register call naming an already registered kind K always fails and
\* keeps K's callable and provenance; it fails with DuplicateKindRegistration when K
\* is the only kind the call names (an impl call naming a second device type may
\* stop on that type's own error first).
C1_RegisterTwiceFails ==
    [][\A K \in UserKinds :
          RegistersAgain(K) =>
              /\ last'.err # "ok"
              /\ (last'.kinds = {K} => last'.err = "DuplicateKindRegistration")
              /\ ops'[last'.h].impls[K] = ops[last'.h].impls[K]]_vars

\* C1 witness: a second register call for one kind was rejected as a duplicate, and
\* the kind map still holds the first registration.
C1_Witness ==
    /\ last.op \in RegisterOps
    /\ last.err = "DuplicateKindRegistration"
    /\ \E K \in UserKinds : last.kinds = {K} /\ _has_impl(ops[last.h].impls, K)

\* C2: a register call that fails because a kind is already registered leaves the
\* kind map of the extension point exactly as it was.
C2_DuplicateLeavesKindMap ==
    [][(last'.op \in RegisterOps /\ last'.err = "DuplicateKindRegistration")
           => ops'[last'.h].impls = ops[last'.h].impls]_vars

DeclareOps == {"custom_op", "custom_op_with_schema"}

\* The extension point the registry holds for q exists and has not been destroyed.
Live(q) == InRegistry(q) /\ ops[global_registry[q]].lib

\* What a declare of the well-formed name Q_mf with valid arguments must do: succeed
\* and enter the registry when nothing defines the name, fail with
\* DuplicateDeclaration when the name's registered extension point is live.
DeclaresOnce ==
    /\ ~HostDefined(Q_mf) =>
          /\ last'.err = "ok"
          /\ InRegistry(Q_mf)'
          /\ global_registry'[Q_mf] = Len(ops) + 1
    /\ Live(Q_mf) => last'.err = "DuplicateDeclaration"

\* C3: a declare with valid arguments of a name nothing yet defines succeeds and
\* enters the registry; a declare of a name whose registered extension point is live
\* fails, with DuplicateDeclaration when its arguments are valid, and the registry
\* keeps the first extension point.
C3_DeclareOnce ==
    [][/\ (last'.op \in DeclareOps /\ Live(last'.q)) =>
              /\ last'.err # "ok"
              /\ global_registry' = global_registry
              /\ ops' = ops
       /\ (last'.op = "custom_op" /\ last'.q = Q_mf) =>
              /\ custom_op(Q_mf, P_f, FALSE, S_ok) => DeclaresOnce
              /\ custom_op(Q_mf, P_f, TRUE, S_ok) => DeclaresOnce
       /\ (last'.op = "custom_op_with_schema" /\ last'.q = Q_mf) =>
              (custom_op_with_schema(Q_mf, S_ok) => DeclaresOnce)]_vars

\* C3 witness: a second custom_op of a name was rejected as a duplicate while the
\* extension point of the first custom_op is live and still the registered one.
C3_Witness ==
    /\ last.op = "custom_op"
    /\ last.err = "DuplicateDeclaration"
    /\ Live(last.q)
    /\ ops[global_registry[last.q]].origin = "custom_op"

\* C4: an entry of the registry whose extension point is live is never replaced by
\* a different extension point of the same name.
C4_NoSilentReplace ==
    [][\A q \in DOMAIN global_registry :
          (Live(q) /\ q \in DOMAIN global_registry')
              => global_registry'[q] = global_registry[q]]_vars

\* Names custom_op must reject, with the error each one raises.
BadNameErr ==
    (Q_nosep :> "InvalidName") @@ (Q_nsdot :> "InvalidName")
        @@ (Q_reserved :> "ReservedNamespace") @@ (Q_symdot :> "InvalidName")

\* C5: custom_op of a name with no '::', a '.' in the namespace, a reserved namespace
\* or a '.' in the symbol fails with the naming error (or, for a non-function, with
\* NotAFunction) and creates nothing: no object, no registry entry, no host
\* definition, no kernel; each of the six reserved namespaces is rejected.
C5_BadNamesRejected ==
    [][/\ ops = <<>> =>
              \A ns \in RESERVED_NS :
                  custom_op_precheck(Qual(ns, <<"f">>), P_f, FALSE, S_ok) = "ReservedNamespace"
       /\ (last'.op = "custom_op" /\ last'.q \in DOMAIN BadNameErr) =>
              /\ last'.err \in {BadNameErr[last'.q], "NotAFunction"}
              /\ custom_op(last'.q, P_f, FALSE, S_ok) => last'.err = BadNameErr[last'.q]
              /\ UNCHANGED <<ops, global_registry, hostDefs, hostKernels>>]_vars

\* C5 witness: custom_op of a name in a reserved namespace was rejected.
C5_Witness ==
    /\ last.op = "custom_op"
    /\ last.q = Q_reserved
    /\ last.err = "ReservedNamespace"
    /\ ~InRegistry(Q_reserved)

\* C6: every extension point in the registry has a non-empty namespace without '.'
\* that is not reserved, and a non-empty symbol without '.'.
C6_RegistryNamesValid ==
    \A q \in DOMAIN global_registry :
        LET o == ops[global_registry[q]]
        IN  /\ o.cpp_ns # <<>>
            /\ ~HasDot(o.cpp_ns)
            /\ o.cpp_ns \notin RESERVED_NS
            /\ o.opname # <<>>
            /\ ~HasDot(o.opname)

\* C7: a declare that fails leaves the registry identical to what it was.
C7_FailedDeclareKeepsRegistry ==
    [][(last'.op \in DeclareOps /\ last'.err # "ok")
           => global_registry' = global_registry]_vars

C9_DestroyedHandleNotFound ==
    (last.op \in {"has_impl", "get_impl"} /\ ~ops[last.h].lib) =>
        /\ last.err = "NotFound"
        /\ last.ret \notin {"True", "f", "g"}

\* C10: the registry starts empty, and an entry made by a successful declare stays
\* mapped to its extension point across every step that is not the destroy of that
\* extension point.
C10_EntryStableUntilDestroy ==
    /\ Init => global_registry = <<>>
    /\ [][\A q \in DOMAIN global_registry :
             (/\ ops[global_registry[q]].origin \in {"custom_op", "with_schema"}
              /\ ~(last'.op = "destroy" /\ last'.h = global_registry[q]))
                 => (q \in DOMAIN global_registry' /\ global_registry'[q] = global_registry[q])]_vars

\* The kernels another registration surface installed for the name of object h.
ExternalKeys(h) == {k[2] : k \in {e \in hostKernels : e[1] = ops[h].qualname /\ e[3] = 0}}

\* C11: on a live extension point with 'cuda' and 'cpu' registered, select for
\* arguments holding a cuda tensor and a cpu tensor, in either order, returns the
\* 'cuda' implementation.
C11_CudaBeforeCpu ==
    \A h \in Handles, args \in CallArgs :
        (/\ ops[h].lib
         /\ _has_impl(ops[h].impls, "cuda")
         /\ _has_impl(ops[h].impls, "cpu")
         /\ {"cuda", "cpu"} \subseteq TensorKinds(args))
            => /\ select_err(h, args) = "ok"
               /\ select_ret(h, args) = ops[h].impls["cuda"].func

\* C11 witness: a call with a cpu and a cuda tensor ran the 'cuda' implementation of
\* an extension point whose 'cpu' implementation is a different callable.
C11_Witness ==
    /\ last.op = "call"
    /\ last.kinds = {"cpu", "cuda"}
    /\ last.err = "ok"
    /\ _has_impl(ops[last.h].impls, "cpu")
    /\ last.ret = ops[last.h].impls["cuda"].func
    /\ last.ret # ops[last.h].impls["cpu"].func

\* The kind a register call records for the tensors of a device type.
KindOfDevice(d) == IF d = "meta" THEN "abstract" ELSE d

\* What select gives as a function of the kind map, the keys the other registration
\* surface holds, and the device types among the arguments, and of nothing else.
RefSelect(impls, ext, kinds) ==
    IF kinds = {}
    THEN IF "BackendSelect" \in ext THEN "external"
         ELSE IF _has_impl(impls, "factory") THEN impls["factory"].func
         ELSE "NoTensorInputs"
    ELSE LET d == HighestPriority(kinds)
         IN  IF DeviceKey[d] \in ext THEN "external"
             ELSE IF _has_impl(impls, KindOfDevice(d)) THEN impls[KindOfDevice(d)].func
             ELSE IF ext \cap {"CompositeExplicitAutograd", "CompositeImplicitAutograd"} # {}
             THEN "external"
             ELSE report_error_callback(DeviceKey[d])

\* C12: on a live extension point select is a function of the registered kinds and
\* the device types among the arguments alone, so it does not depend on the order of
\* the registrations or of the arguments, and repeating it gives the same result.
C12_SelectIsFunctionOfKinds ==
    \A h \in Handles, args \in CallArgs :
        ops[h].lib =>
            (IF select_err(h, args) = "ok" THEN select_ret(h, args) ELSE select_err(h, args))
                = RefSelect(ops[h].impls, ExternalKeys(h), TensorKinds(args))

\* C12 witness: a call selected an implementation on an extension point that holds
\* two device kinds with different callables.
C12_Witness ==
    /\ last.op = "call"
    /\ last.err = "ok"
    /\ last.kinds = {"cpu"}
    /\ _has_impl(ops[last.h].impls, "cuda")
    /\ last.ret = ops[last.h].impls["cpu"].func
    /\ last.ret # ops[last.h].impls["cuda"].func

\* C13: select without tensor arguments fails with NoTensorInputs when 'factory' is
\* not registered and returns the 'factory' implementation when it is.
C13_FactoryWithoutTensors ==
    \A h \in Handles, args \in CallArgs :
        (ops[h].lib /\ TensorKinds(args) = {}) =>
            IF _has_impl(ops[h].impls, "factory")
            THEN select_err(h, args) = "ok" /\ select_ret(h, args) = ops[h].impls["factory"].func
            ELSE ExternalKeys(h) = {} => select_err(h, args) = "NoTensorInputs"

\* C14: with tensor arguments whose highest-priority device type has no implementation
\* registered on either registration surface, select fails with NoImplementation
\* naming that type, also when a lower-priority type present has one.
C14_NoFallbackToLowerPriority ==
    \A h \in Handles, args \in CallArgs :
        (/\ ops[h].lib
         /\ TensorKinds(args) \cap {"cpu", "cuda"} # {}
         /\ "meta" \notin TensorKinds(args)
         /\ ~_has_impl(ops[h].impls, HighestPriority(TensorKinds(args)))
         /\ ExternalKeys(h) = {})
            => /\ select_err(h, args) = "NoImplementation(" \o HighestPriority(TensorKinds(args)) \o ")"
               /\ select_ret(h, args) = "none"

\* C14 witness: a call with a cuda and a cpu tensor failed for 'cuda' on an extension
\* point that has a 'cpu' implementation.
C14_Witness ==
    /\ last.op = "call"
    /\ last.kinds = {"cpu", "cuda"}
    /\ last.err = "NoImplementation(cuda)"
    /\ _has_impl(ops[last.h].impls, "cpu")
    /\ ~_has_impl(ops[last.h].impls, "cuda")

MetaArgs == <<"meta">>

\* What C15 asks of the dispatch of a call on meta tensors: the 'abstract'
\* implementation when registered; else the fallback exactly when the name has a
\* CompositeExplicitAutograd kernel and no Meta kernel; else NoAbstractImpl.
ShapeInferenceDispatch(h) ==
    IF _has_impl(ops[h].impls, "abstract")
    THEN /\ select_err(h, MetaArgs) = "ok"
         /\ select_ret(h, MetaArgs) = ops[h].impls["abstract"].func
    ELSE IF "CompositeExplicitAutograd" \in ExternalKeys(h) /\ "Meta" \notin ExternalKeys(h)
    THEN select_err(h, MetaArgs) = "ok"
    ELSE select_err(h, MetaArgs) = "NoAbstractImpl"

KeysOfKind(K) ==
    IF K \in DOMAIN SUPPORTED_DEVICE_TYPE_TO_KEY THEN {SUPPORTED_DEVICE_TYPE_TO_KEY[K]}
    ELSE IF K = "factory" THEN {"BackendSelect"}
    ELSE IF K = "abstract" THEN {"Meta"}
    ELSE {"Autograd", "AutogradCPU", "AutogradCUDA"}

\* C16: a register call for a kind the other registration surface already supplies
\* fails with ExternalConflict and records nothing in the kind map.
C16_ExternalConflictRecordsNothing ==
    [][\A K \in UserKinds :
          (/\ last'.op \in RegisterOps
           /\ last'.kinds = {K}
           /\ ops[last'.h].lib
           /\ KeysOfKind(K) \cap ExternalKeys(last'.h) # {})
              => /\ last'.err = "ExternalConflict"
                 /\ ops'[last'.h].impls = ops[last'.h].impls]_vars

\* C17: on every extension point 'autograd' is registered exactly when 'backward' and
\* 'save_for_backward' both are, and a call that reaches the indirection kernel while
\* only one of them is registered fails with IncompleteComposition.
C17_ComposedIffBoth ==
    \A h \in Handles :
        /\ _has_impl(ops[h].impls, "autograd")
               <=> (_has_impl(ops[h].impls, "backward")
                        /\ _has_impl(ops[h].impls, "save_for_backward"))
        /\ (ops[h].lib /\ IncompleteComposition(h)) =>
               \A args \in CallArgs :
                   TensorKinds(args) # {} => call_err(h, args, TRUE) = "IncompleteComposition"

\* C18: on a live extension point made by custom_op, with no autograd kernel from
\* another registration surface, a first registration of 'backward' or of
\* 'save_for_backward' succeeds, and 'autograd' is registered once both are.
C18_BackwardAfterCustomOp ==
    [][(/\ last'.op \in {"impl_backward", "impl_save_for_backward"}
        /\ ops[last'.h].lib
        /\ ops[last'.h].origin = "custom_op"
        /\ \A K \in last'.kinds : ~_has_impl(ops[last'.h].impls, K)
        /\ ExternalKeys(last'.h) = {})
           => /\ last'.err = "ok"
              /\ (_has_impl(ops'[last'.h].impls, "backward")
                      /\ _has_impl(ops'[last'.h].impls, "save_for_backward"))
                     => _has_impl(ops'[last'.h].impls, "autograd")]_vars

\* The kind whose absence a dispatch error reports.
MissingKind(err) ==
    IF err = "NoTensorInputs" THEN "factory"
    ELSE IF err = "NoAbstractImpl" THEN "abstract"
    ELSE IF err = "NoImplementation(cpu)" THEN "cpu"
    ELSE IF err = "NoImplementation(cuda)" THEN "cuda"
    ELSE "none"

\* C19: when select fails on a live extension point for want of kind K, a successful
\* register of K makes select with the same arguments return K's implementation.
C19_DispatchFailureRecoverable ==
    [][(last'.op \in RegisterOps /\ last'.err = "ok" /\ ops[last'.h].lib) =>
          \A h \in {last'.h}, args \in CallArgs :
              MissingKind(select_err(h, args)) \in last'.kinds
                  => /\ select_err(h, args)' = "ok"
                     /\ select_ret(h, args)'
                            = ops'[h].impls[MissingKind(select_err(h, args))].func
                     /\ select_ret(h, args)' # "none"]_vars

\* C19 witness: 'cuda' was just registered on a live extension point that already had
\* 'cpu', and select for a cpu and a cuda tensor now returns the 'cuda' implementation.
C19_Witness ==
    /\ last.op = "impl"
    /\ last.err = "ok"
    /\ last.kinds = {"cuda"}
    /\ ops[last.h].lib
    /\ _has_impl(ops[last.h].impls, "cpu")
    /\ select_ret(last.h, <<"cpu", "cuda">>) = ops[last.h].impls["cuda"].func

\* C20: a call changes neither the registry nor any kind map nor the dispatcher,
\* whether it succeeds or fails.
C20_CallChangesNothing ==
    [][last'.op = "call" => UNCHANGED <<ops, global_registry, hostDefs, hostKernels>>]_vars

\* C20 witness: a call failed on an extension point that holds implementations.
C20_Witness ==
    /\ last.op = "call"
    /\ last.err = "NoImplementation(cuda)"
    /\ _has_impl(ops[last.h].impls, "cpu")
    /\ _has_impl(ops[last.h].impls, "factory")

\* The racing threads whose arguments pass every check but the duplicate one.
WellFormed(t) ==
    /\ threads[t].at # "idle"
    /\ <<threads[t].entry, threads[t].func, threads[t].manual, threads[t].schema>> \in
           {<<"custom_op", P_f, FALSE, S_ok>>, <<"custom_op", P_f, TRUE, S_ok>>,
            <<"custom_op_with_schema", P_f, TRUE, S_ok>>}

\* The threads whose declaration has passed lib.define and has not failed.
Winners == {t \in Threads : threads[t].at \in {"defined", "constructed", "returned"}}

\* C21: of the declarations of one name that run at the same time, steps interleaved,
\* exactly one succeeds, every other well-formed one fails with DuplicateDeclaration,
\* and the registry ends up mapping the name to the object of the one that succeeded.
C21_ExactlyOneDeclareWins ==
    /\ Cardinality(Winners) <= 1
    /\ \A t \in Threads :
          (WellFormed(t) /\ threads[t].at = "raised") =>
              /\ threads[t].err = "DuplicateDeclaration"
              /\ Winners # {}
    /\ (\A t \in Threads : threads[t].at \in {"returned", "raised"}) =>
          \A t \in Threads :
              WellFormed(t) =>
                  \E w \in Threads :
                      /\ threads[w].at = "returned"
                      /\ Winners = {w}
                      /\ InRegistry(Q_mf)
                      /\ global_registry[Q_mf] = threads[w].h
                      /\ ops[threads[w].h].lib

\* C21 witness: a well-formed declaration has lost with DuplicateDeclaration while
\* the winner is still between lib.define and the construction of its object.
C21_Witness ==
    \E w \in Threads, t \in Threads :
        /\ w # t
        /\ threads[w].at = "defined"
        /\ WellFormed(t)
        /\ threads[t].at = "raised"
        /\ threads[t].err = "DuplicateDeclaration"

\* The names of the parameters of the prototype function.
ParamNames == {sig.parameters[i].name : i \in 1..Len(sig.parameters)}

\* The number of values the return annotation declares.
DeclaredReturns ==
    IF sig.return_annotation.origin = "None" THEN 0 ELSE Len(sig.return_annotation.args)

\* C22 as claimed: every schema infer_schema produces passes validate_schema, whatever
\* the parameters, the return annotation and mutated_args, unless it declares no return
\* value, and then validation fails with NonFunctionalSchema.
C22_InferredAlwaysFunctional ==
    out.fn = "validate_schema" =>
        IF DeclaredReturns = 0 THEN out.valid = "NonFunctionalSchema" ELSE out.valid = "ok"

\* C22 amended: a schema infer_schema produces passes validate_schema exactly when it
\* declares at least one return value, no parameter is named in mutated_args and no
\* parameter is named self; otherwise validation fails with NonFunctionalSchema.
C22_InferredFunctionalUnlessMutated ==
    out.fn = "validate_schema" =>
        IF DeclaredReturns > 0 /\ out.mutated_args \cap ParamNames = {} /\ "self" \notin ParamNames
        THEN out.valid = "ok"
        ELSE out.valid = "NonFunctionalSchema"

\* C22 witness: a schema inferred from two parameters and two return values, with
\* mutated_args naming no parameter, has passed validation.
C22_Witness ==
    /\ out.fn = "validate_schema"
    /\ out.valid = "ok"
    /\ Len(sig.parameters) = 2
    /\ DeclaredReturns = 2
    /\ out.mutated_args = {"z"}

\* The annotations of the tensor family: Tensor, optional Tensor, list of Tensor, list
\* of optional Tensor.
TensorFamily ==
    {Ann("Tensor", f) : f \in {"T", "Optional[T]", "Sequence[T]", "List[T]",
                               "Sequence[Optional[T]]", "List[Optional[T]]"}}

\* The annotations of the supported-type table that are not of the tensor family.
OtherSupported ==
    {Ann(b, f) : b \in {"int", "float", "bool"},
                 f \in {"T", "Optional[T]", "Sequence[T]", "List[T]",
                        "Optional[Sequence[T]]", "Optional[List[T]]"}}
    \cup {Ann("Number", f) : f \in {"T", "Optional[T]", "Sequence[T]", "List[T]"}}
    \cup {Ann(b, f) : b \in {"str", "dtype", "device"}, f \in {"T", "Optional[T]"}}

\* Every parameter is one infer_schema supports: positional-or-keyword or keyword-only,
\* annotated with a type of the table, without a default value.
SupportedParameters ==
    \A i \in 1..Len(sig.parameters) :
        /\ sig.parameters[i].kind \in {"POSITIONAL_OR_KEYWORD", "KEYWORD_ONLY"}
        /\ sig.parameters[i].annotation \in TensorFamily \cup OtherSupported
        /\ ~sig.parameters[i].default

\* C23: on a supported parameter list, infer_schema fails with InvalidMutation when a
\* parameter named in mutated_args is not of the tensor family; whenever it succeeds,
\* the parameters marked mutable in the result are exactly those named in mutated_args,
\* and each of them is of the tensor family.
C23_MutatedMustBeTensor ==
    out.fn = "infer_schema" =>
        /\ SupportedParameters =>
              IF \E i \in 1..Len(sig.parameters) :
                     /\ sig.parameters[i].name \in out.mutated_args
                     /\ sig.parameters[i].annotation \notin TensorFamily
              THEN out.err = "InvalidMutation"
              ELSE out.err \in {"ok", "UnsupportedType"}
        /\ out.err = "ok" =>
              /\ Len(out.schema.params) = Len(sig.parameters)
              /\ \A i \in 1..Len(sig.parameters) :
                    /\ out.schema.params[i].name = sig.parameters[i].name
                    /\ (out.schema.params[i].type.alias # <<>>) <=>
                           (sig.parameters[i].name \in out.mutated_args)
                    /\ (sig.parameters[i].name \in out.mutated_args) =>
                           /\ sig.parameters[i].annotation \in TensorFamily
                           /\ out.schema.params[i].type.base = "Tensor"

\* C23 witness: infer_schema has succeeded on two parameters of which mutated_args
\* names one, a list of optional Tensor.
C23_Witness ==
    /\ out.fn = "infer_schema"
    /\ out.err = "ok"
    /\ out.mutated_args = {"x"}
    /\ Len(sig.parameters) = 2
    /\ sig.parameters[1].name = "x"
    /\ sig.parameters[1].annotation = Ann("Tensor", "Sequence[Optional[T]]")
    /\ out.schema.params[1].type.alias = <<0>>
    /\ out.schema.params[2].type.alias = <<>>

\* The signature and the manual schema have the same names, in the same order, in the
\* positional group and in the keyword-only group, every parameter of the signature is
\* in one of the two groups, and neither side declares a default value.
SameStructure ==
    LET pos == SelectSeq(sig.parameters, LAMBDA q : q.kind = "POSITIONAL_OR_KEYWORD")
        kw == SelectSeq(sig.parameters, LAMBDA q : q.kind = "KEYWORD_ONLY")
    IN  /\ Len(pos) + Len(kw) = Len(sig.parameters)
        /\ [i \in 1..Len(pos) |-> pos[i].name] =
               [i \in 1..Len(out.manual.flat_positional) |-> out.manual.flat_positional[i].name]
        /\ [i \in 1..Len(kw) |-> kw[i].name] =
               [i \in 1..Len(out.manual.flat_kwarg_only) |-> out.manual.flat_kwarg_only[i].name]
        /\ \A i \in 1..Len(sig.parameters) : ~sig.parameters[i].default
        /\ \A i \in 1..Len(out.manual.flat_positional) : ~out.manual.flat_positional[i].default
        /\ \A i \in 1..Len(out.manual.flat_kwarg_only) : ~out.manual.flat_kwarg_only[i].default

\* The signature carries no type annotation, on a parameter or on the return.
Unannotated ==
    /\ \A i \in 1..Len(sig.parameters) : sig.parameters[i].annotation = Empty
    /\ sig.return_annotation = RetOf(Empty)

\* C24 as claimed: validate_function_matches_schema succeeds exactly when the signature
\* and the schema have the same structure, whether or not the signature is annotated,
\* and fails with SignatureMismatch otherwise.
C24_MatchesIgnoresAnnotations ==
    out.fn = "validate_function_matches_schema" =>
        IF SameStructure THEN out.err = "ok" ELSE out.err = "SignatureMismatch"

\* C24 amended: validate_function_matches_schema succeeds exactly when the signature
\* carries no type annotation at all and has the same structure as the schema; in
\* every other case, an annotated signature among them, it fails with SignatureMismatch.
C24_MatchesUnannotatedStructure ==
    out.fn = "validate_function_matches_schema" =>
        IF SameStructure /\ Unannotated THEN out.err = "ok" ELSE out.err = "SignatureMismatch"

\* C24 witness: an unannotated signature with one positional and one keyword-only
\* parameter has matched a manual schema.
C24_Witness ==
    /\ out.fn = "validate_function_matches_schema"
    /\ out.err = "ok"
    /\ Len(sig.parameters) = 2
    /\ sig.parameters[2].kind = "KEYWORD_ONLY"
    /\ Len(out.manual.flat_kwarg_only) = 1

\* C25: every extension point held in global_registry has a schema that meets the
\* functional contract: no mutable parameter, no return that aliases an input, at
\* least one return, no parameter named self.
C25_RegistrySchemasFunctional ==
    \A q \in DOMAIN global_registry :
        LET schema == ops[global_registry[q]].schema
        IN  /\ ~schema.mutable
            /\ ~schema.views
            /\ schema.nrets >= 1
            /\ ~schema.self_arg

\* The message m interpolates a value of the sort `what` equal to value.
Carries(m, what, value) ==
    \E i \in 1..Len(m) : m[i].what = what /\ m[i].value = value

\* C26: every error that a declare, register or select call raises carries the
\* qualified name of the extension point; a DuplicateKindRegistration error also
\* carries the offending kind and the provenance of the registration already held.
C26_ErrorsCarryQualifiedName ==
    (/\ last.op \in DeclareOps \cup RegisterOps \cup {"call"}
     /\ last.err \in ModuleErrors) =>
        LET impls == IF last.h \in Handles THEN ops[last.h].impls ELSE EmptyImpls
            m == message(last, impls)
        IN  /\ Carries(m, "qualname", last.q)
            /\ (last.err = "DuplicateKindRegistration" /\ Cardinality(last.kinds) = 1) =>
                   \A K \in last.kinds :
                       /\ Carries(m, "kind", K)
                       /\ Carries(m, "location", ops[last.h].impls[K].location)

\* C27: an Event's event_id is 0 from its creation until it is first recorded on a
\* stream, is non-zero once it has been recorded (by record_event(event=e), by
\* e.record, or by record_event() creating it), and keeps its value when the event is
\* recorded again.
C27_EventIdSetOnFirstRecord ==
    [][\A e \in DOMAIN events' :
          /\ (events'[e].recorded = 0) <=> (events'[e].event_id = 0)
          /\ (e \in DOMAIN events /\ events[e].event_id # 0) =>
                 events'[e].event_id = events[e].event_id]_vars

\* C27 witness: an event made by torch.Event() has been recorded twice, and an event
\* made by record_event() exists; both have a non-zero event_id.
C27_Witness ==
    \E e \in DOMAIN events, n \in DOMAIN events :
        /\ events[e].made_by = "Event"
        /\ events[e].recorded = 2
        /\ events[e].event_id # 0
        /\ events[n].made_by = "record_event"
        /\ events[n].event_id # 0

\* C28: two different Events that have each been recorded on the same Stream never
\* have the same event_id.
C28_RecordedEventIdsDiffer ==
    \A e \in DOMAIN events, n \in DOMAIN events :
        (/\ e # n
         /\ events[e].recorded > 0
         /\ events[n].recorded > 0
         /\ events[e].stream = events[n].stream) =>
            events[e].event_id # events[n].event_id

\* C28 witness: three events have been recorded on one stream.
C28_Witness ==
    /\ Len(events) = 3
    /\ \A e \in DOMAIN events : events[e].recorded > 0 /\ events[e].stream = events[1].stream

\* The host dispatcher holds a kernel that extension point h installed under the
\* dispatch key of device kind K.
OwnKernel(h, K) == <<ops[h].qualname, SUPPORTED_DEVICE_TYPE_TO_KEY[K], h>> \in hostKernels

\* The device kinds in the kind map of h are those h has installed a kernel for.
KindMapMatchesHost(h) ==
    \A K \in DOMAIN SUPPORTED_DEVICE_TYPE_TO_KEY : _has_impl(ops[h].impls, K) <=> OwnKernel(h, K)

\* C29: no register call, successful or failed, ends with a device kind in the kind map
\* of its extension point and no kernel of that extension point in the host dispatcher
\* under the kind's dispatch key; and a successful register call on a live extension
\* point whose kind map matched the host dispatcher leaves them matching.
C29_KindRecordedOnlyWithKernel ==
    [][last'.op \in RegisterOps =>
          \A h \in {last'.h} :
              /\ \A K \in DOMAIN SUPPORTED_DEVICE_TYPE_TO_KEY :
                     _has_impl(ops'[h].impls, K) => OwnKernel(h, K)'
              /\ (ops[h].lib /\ KindMapMatchesHost(h) /\ last'.err = "ok") =>
                     KindMapMatchesHost(h)']_vars

\* C30: the kernel of extension point h appears under the Autograd key only when h is
\* constructed, or, for an object made from an existing operator, when its flag
\* _registered_autograd_kernel_indirection goes from False to True; the flag never
\* goes back, so the kernel is installed at most once however many backward and
\* save_for_backward registrations follow, and the assertion of
\* _register_autograd_kernel_indirection never fails.
C30_IndirectionInstalledOnce ==
    [][/\ \A h \in 1..Len(ops') :
              (/\ <<ops'[h].qualname, "Autograd", h>> \in hostKernels'
               /\ <<ops'[h].qualname, "Autograd", h>> \notin hostKernels) =>
                  \/ h \notin Handles
                  \/ /\ ops[h].origin = "existing"
                     /\ ~ops[h].indirection
                     /\ ops'[h].indirection
       /\ \A h \in Handles : ops[h].indirection => ops'[h].indirection
       /\ last'.err # "AssertionError"]_vars

\* C30 witness: an extension point declared by _custom_op_with_schema has both its
\* backward and its save_for_backward registered and holds its one Autograd kernel.
C30_Witness ==
    \E h \in Handles :
        /\ ops[h].origin = "with_schema"
        /\ _has_impl(ops[h].impls, "backward")
        /\ _has_impl(ops[h].impls, "save_for_backward")
        /\ ops[h].indirection
        /\ <<ops[h].qualname, "Autograd", h>> \in hostKernels

\* C31: an impl call that names a device type other than cpu and cuda fails on
\* validate_device_type before anything is registered: the kind maps, the registry
\* and the host dispatcher are as they were before the call.
C31_BadDeviceTypeRegistersNothing ==
    [][(/\ last'.op = "impl"
        /\ \E d \in last'.kinds : d \notin {"cpu", "cuda"}) =>
           /\ last'.err = "InvalidDeviceType"
           /\ UNCHANGED <<ops, global_registry, hostDefs, hostKernels>>]_vars

\* C31 witness: impl(['cpu', 'xpu']) has failed on a live extension point that has no
\* cpu implementation and whose dispatcher entry has no CPU kernel.
C31_Witness ==
    /\ last.op = "impl"
    /\ last.kinds = {"cpu", "xpu"}
    /\ last.err = "InvalidDeviceType"
    /\ ops[last.h].lib
    /\ ~_has_impl(ops[last.h].impls, "cpu")
    /\ ~HostHasKernel(hostKernels, ops[last.h].qualname, "CPU")

\* The dispatch key a device or abstract kind is installed under.
KeyOfKind(K) == IF K = "abstract" THEN "Meta" ELSE SUPPORTED_DEVICE_TYPE_TO_KEY[K]

\* The step is a register call naming the device or abstract kind K on an object that
\* registered K before, while the host dispatcher holds the kernel installed then.
RegistersAgainOverKernel(K) ==
    /\ RegistersAgain(K)
    /\ <<ops[last'.h].qualname, KeyOfKind(K), last'.h>> \in hostKernels

\* C32 as claimed: every register call naming a device or abstract kind that was
\* registered through this API fails with DuplicateKindRegistration, carrying the
\* first registration's provenance, and never with another error.
C32_SecondRegisterAlwaysDuplicate ==
    [][\A K \in {"cpu", "cuda", "abstract"} :
          RegistersAgainOverKernel(K) =>
              /\ last'.err = "DuplicateKindRegistration"
              /\ Carries(register_impl_message(ops[last'.h].impls, last'.q, K),
                         "location", ops[last'.h].impls[K].location)]_vars

\* C32 amended: a register call that names only the device or abstract kind K, K
\* registered through this API before, fails with DuplicateKindRegistration and not
\* with ExternalConflict although the dispatcher holds K's kernel; its message carries
\* the location of the first registration, which stays in the kind map. A call that
\* names another device type as well fails too, possibly on that type's own error.
C32_SecondRegisterOfOneKindIsDuplicate ==
    [][\A K \in {"cpu", "cuda", "abstract"} :
          RegistersAgainOverKernel(K) =>
              /\ last'.err # "ok"
              /\ last'.kinds = {K} =>
                    /\ last'.err = "DuplicateKindRegistration"
                    /\ Carries(message(last', ops[last'.h].impls), "location",
                               ops[last'.h].impls[K].location)
                    /\ ops'[last'.h].impls[K] = ops[last'.h].impls[K]]_vars

\* C32 witness: a second impl('cpu') on a live extension point, whose CPU kernel the
\* dispatcher holds, was rejected as a duplicate registered at another location.
C32_Witness ==
    /\ last.op = "impl"
    /\ last.kinds = {"cpu"}
    /\ last.err = "DuplicateKindRegistration"
    /\ ops[last.h].lib
    /\ ops[last.h].impls["cpu"].location = "L1"
    /\ <<ops[last.h].qualname, "CPU", last.h>> \in hostKernels

\* The first impl_abstract on the live extension point h, as the dispatcher's kernels
\* for Meta and the two composite keys say it must end.
FirstAbstractAccepted(h) ==
    LET q == ops[h].qualname
        meta == HostHasKernel(hostKernels, q, "Meta")
        explicit == HostHasKernel(hostKernels, q, "CompositeExplicitAutograd")
        implicit == HostHasKernel(hostKernels, q, "CompositeImplicitAutograd")
    IN  IF meta THEN FALSE
        ELSE IF explicit THEN TRUE
        ELSE ~implicit

\* C33: the first impl_abstract on a live extension point is rejected when the
\* dispatcher has a Meta kernel; without one it is accepted when there is a
\* CompositeExplicitAutograd kernel, with or without a CompositeImplicitAutograd one,
\* rejected when there is only a CompositeImplicitAutograd kernel, and accepted when
\* there is none of the three. Accepted: 'abstract' is recorded and the Meta kernel
\* installed; rejected: ExternalConflict, nothing recorded or installed.
C33_FirstAbstractFollowsHostKernels ==
    [][last'.op = "impl_abstract" =>
          \A h \in {last'.h} :
              (ops[h].lib /\ ~_has_impl(ops[h].impls, "abstract")) =>
                  IF FirstAbstractAccepted(h)
                  THEN /\ last'.err = "ok"
                       /\ _has_impl(ops'[h].impls, "abstract")
                       /\ <<ops[h].qualname, "Meta", h>> \in hostKernels'
                  ELSE /\ last'.err = "ExternalConflict"
                       /\ UNCHANGED <<ops, global_registry, hostDefs, hostKernels>>]_vars

\* C33 witness: impl_abstract was accepted on a live extension point whose name has
\* CompositeExplicitAutograd and CompositeImplicitAutograd kernels of other libraries.
C33_Witness ==
    /\ last.op = "impl_abstract"
    /\ last.err = "ok"
    /\ ops[last.h].lib
    /\ <<last.q, "CompositeExplicitAutograd", 0>> \in hostKernels
    /\ <<last.q, "CompositeImplicitAutograd", 0>> \in hostKernels
    /\ <<last.q, "Meta", last.h>> \in hostKernels

\* C34: a register call on a destroyed extension point fails and leaves that
\* extension point's kind map and the registry as they were.
C34_RegisterAfterDestroyChangesNothing ==
    [][(last'.op \in RegisterOps /\ ~ops[last'.h].lib) =>
          /\ last'.err # "ok"
          /\ ops'[last'.h].impls = ops[last'.h].impls
          /\ global_registry' = global_registry]_vars

\* C35: destroy on a destroyed handle fails and changes nothing, and no destroy, of a
\* stale handle or of a live one, removes or replaces a registry entry that refers to
\* another extension point than the one destroyed.
C35_DestroyRemovesOnlyItself ==
    [][last'.op = "destroy" =>
          \A h \in {last'.h} :
              /\ ~ops[h].lib =>
                     /\ last'.err # "ok"
                     /\ UNCHANGED <<ops, global_registry, hostDefs, hostKernels>>
              /\ \A q \in DOMAIN global_registry :
                     global_registry[q] # h =>
                         /\ q \in DOMAIN global_registry'
                         /\ global_registry'[q] = global_registry[q]]_vars

\* Some extension point declared under the name q has been destroyed.
Destroyed(q) ==
    \E h \in Handles : ops[h].qualname = q /\ ops[h].origin \in DeclareOps /\ ~ops[h].lib

\* A declare of Q_mf with valid arguments makes a new extension point: the call
\* succeeds, the registry refers to the new object, whose kind map is empty, and the
\* objects there were, with what they registered, are as before and own no kernel.
DeclaresAfresh ==
    LET new == Len(ops) + 1
    IN  /\ last'.err = "ok"
        /\ last'.h = new
        /\ Len(ops') = new
        /\ ops'[new].qualname = Q_mf
        /\ ops'[new].lib
        /\ ops'[new].impls = EmptyImpls
        /\ global_registry'[Q_mf] = new
        /\ \A h \in Handles :
              /\ ops'[h] = ops[h]
              /\ ~ops[h].lib => \A k \in hostKernels' : k[3] # h

C37_LookupLeavesRegistry ==
    [][last'.op \in {"find_custom_op", "get_abstract_impl"} =>
          global_registry' = global_registry]_vars

====
